---- MODULE Spec2Model ----
(***************************************************************************)
(* Request validation, rate limiting, cache-aside execution and query      *)
(* routing of the PT-Gen worker (src/unnamed/part_000, the worker entry).  *)
(***************************************************************************)
EXTENDS Integers, Sequences, FiniteSets, TLC

VARIABLES
    now,            \* the value Date.now() returns
    requestCounts,  \* Map clientIP -> array of timestamps
    lastCleanup,    \* time of the last sweep of requestCounts
    accepted,       \* history: per identity, the timestamps of the calls that returned false
    limitedAt,      \* history: per identity, the clock values at which a call returned true
    lastCall,       \* the last isRateLimited call and what it returned
    unswept,        \* the map of a limiter that never sweeps, given the same calls
    env,            \* the deployment's bindings: API_KEY, R2_BUCKET, TMDB_API_KEY
    store,          \* the contents of the R2 bucket: resourceId -> stored text
    request,        \* the request being served, NoRequest when idle
    response,       \* the response produced for it, NoResponse until then
    trace,          \* what the handler did while serving the request
    genOk,          \* history: per resourceId, generations that returned success
    served,         \* history: per resourceId, the payloads answered with success
    faulted,        \* history: whether a bucket operation has failed
    pc,             \* where the handler of the request stands among its awaits
    fetches,        \* the outbound fetches of the request: name -> state and body
    timers,         \* the abort timers set for them: name -> armed, cleared, fired
    inflight,       \* the requests being served at once: id -> where each stands
    puts            \* history: the bucket writes in the order they completed

rateVars == <<now, requestCounts, lastCleanup, accepted, limitedAt, lastCall, unswept>>
cacheVars == <<env, store, genOk, served, faulted>>
reqVars == <<request, response, trace>>
fetchVars == <<pc, fetches, timers>>
concVars == <<inflight, puts>>
vars == <<now, requestCounts, lastCleanup, accepted, limitedAt, lastCall, unswept,
          env, store, request, response, trace, genOk, served, faulted,
          pc, fetches, timers, inflight, puts>>

-----------------------------------------------------------------------------
(* JavaScript values. A string is the sequence of its tokens; true, false, *)
(* null and undefined are the one-token strings of their names; an object  *)
(* is a function from its own property names to values.                    *)

JS_TRUE == <<"true">>
JS_FALSE == <<"false">>
JS_NULL == <<"null">>
JS_UNDEFINED == <<"undefined">>

\* What a promise resolves to when the function returns nothing.
UndefinedObject == << >>

\* if (v) ...
truthy(v) == v \notin {<< >>, JS_FALSE, JS_NULL, JS_UNDEFINED}

\* obj?.f
Get(obj, f) == IF f \in DOMAIN obj THEN obj[f] ELSE JS_UNDEFINED

\* { ...a, ...b }
spread(a, b) ==
    [f \in DOMAIN a \cup DOMAIN b |-> IF f \in DOMAIN b THEN b[f] ELSE a[f]]

\* delete obj.f
deleteProp(obj, f) == [g \in DOMAIN obj \ {f} |-> obj[g]]

\* JSON.stringify(obj): a property whose value is undefined is left out.
JSON_stringify(obj) ==
    [json |-> [f \in {g \in DOMAIN obj : obj[g] /= JS_UNDEFINED} |-> obj[f]]]

\* JSON.parse(text), response.json()
JSON_parse(text) == text.json

\* s.replace(/from/g, to)
replaceAll(s, from, to) == [i \in 1..Len(s) |-> IF s[i] = from THEN to ELSE s[i]]

lowerToken(c) == IF c = "TMDB" THEN "tmdb" ELSE c

\* s.toLowerCase()
toLowerCase(s) == [i \in 1..Len(s) |-> lowerToken(s[i])]

\* s.includes(token)
includes(s, token) == \E i \in 1..Len(s) : s[i] = token

-----------------------------------------------------------------------------
(* Rate limiter: part_000 lines 19-23, 137-178                             *)

TIME_WINDOW == 60000
MAX_REQUESTS == 30
CLEANUP_INTERVAL == 10000

\* Client identities: the value of the first ip header, else 'unknown'.
Identities == {"1.1.1.1", "unknown"}

\* The values the clock takes in the model; the clock never goes back.
Instants == {0, 10001, 60000, 60001}

\* How many accepted calls each identity may make in a run of the model.
MaxAccepted == 31
MaxAcceptedOther == 1
AcceptBudget(ip) == IF ip = "1.1.1.1" THEN MaxAccepted ELSE MaxAcceptedOther

validRequestsOf_Inclusive(requests, windowStart) ==
    SelectSeq(requests, LAMBDA timestamp : timestamp >= windowStart)

\* requests.filter(timestamp => timestamp > windowStart)
validRequestsOf(requests, windowStart) ==
    SelectSeq(requests, LAMBDA timestamp : timestamp > windowStart)

overLimit_OffByOne(validRequests) == Len(validRequests) > MAX_REQUESTS

\* validRequests.length >= MAX_REQUESTS
overLimit(validRequests) == Len(validRequests) >= MAX_REQUESTS

sweep_DropsAll(counts, windowStart) == << >>

\* The periodic sweep: every identity keeps its timestamps newer than
\* windowStart, and an identity left with none is deleted from the map.
sweep(counts, windowStart) ==
    [ip \in {i \in DOMAIN counts : Len(validRequestsOf(counts[i], windowStart)) > 0}
        |-> validRequestsOf(counts[ip], windowStart)]

\* now - lastCleanup > CLEANUP_INTERVAL
sweepDue(t, last) == t - last > CLEANUP_INTERVAL

mapSet_Dropped(counts, ip, list) == counts

\* requestCounts.set(ip, list)
mapSet(counts, ip, list) ==
    [i \in DOMAIN counts \cup {ip} |-> IF i = ip THEN list ELSE counts[i]]

isRateLimited_RecordsRejected(counts, last, clientIP, t) ==
    LET windowStart == t - TIME_WINDOW
        swept == IF sweepDue(t, last) THEN sweep(counts, windowStart) ELSE counts
        last1 == IF sweepDue(t, last) THEN t ELSE last
    IN  IF clientIP \in DOMAIN swept
        THEN LET validRequests == validRequestsOf(swept[clientIP], windowStart)
             IN  [limited |-> overLimit(validRequests),
                  requestCounts |-> mapSet(swept, clientIP, Append(validRequests, t)),
                  lastCleanup |-> last1]
        ELSE [limited |-> FALSE,
              requestCounts |-> mapSet(swept, clientIP, <<t>>),
              lastCleanup |-> last1]

\* One call of isRateLimited(clientIP) at clock value t: what it returns and
\* the map and sweep time it leaves.
isRateLimited(counts, last, clientIP, t) ==
    LET windowStart == t - TIME_WINDOW
        swept == IF sweepDue(t, last) THEN sweep(counts, windowStart) ELSE counts
        last1 == IF sweepDue(t, last) THEN t ELSE last
    IN  IF clientIP \in DOMAIN swept
        THEN LET validRequests == validRequestsOf(swept[clientIP], windowStart)
             IN  IF overLimit(validRequests)
                 THEN [limited |-> TRUE, requestCounts |-> swept, lastCleanup |-> last1]
                 ELSE [limited |-> FALSE,
                       requestCounts |-> mapSet(swept, clientIP, Append(validRequests, t)),
                       lastCleanup |-> last1]
        ELSE [limited |-> FALSE,
              requestCounts |-> mapSet(swept, clientIP, <<t>>),
              lastCleanup |-> last1]

\* isRateLimited without the block of lines 148-158: the limiter that never
\* sweeps.
isRateLimited_NeverSweeps(counts, last, clientIP, t) ==
    LET windowStart == t - TIME_WINDOW
    IN  IF clientIP \in DOMAIN counts
        THEN LET validRequests == validRequestsOf(counts[clientIP], windowStart)
             IN  IF overLimit(validRequests)
                 THEN [limited |-> TRUE, requestCounts |-> counts, lastCleanup |-> last]
                 ELSE [limited |-> FALSE,
                       requestCounts |-> mapSet(counts, clientIP, Append(validRequests, t)),
                       lastCleanup |-> last]
        ELSE [limited |-> FALSE,
              requestCounts |-> mapSet(counts, clientIP, <<t>>),
              lastCleanup |-> last]

\* The number of timestamps of a history that lie in (t - TIME_WINDOW, t].
InWindow(history, t) ==
    Cardinality({k \in 1..Len(history) : history[k] > t - TIME_WINDOW /\ history[k] <= t})

NoCall == [ip |-> "none", at |-> 0, limited |-> FALSE, before |-> 0]
NoRequest == [kind |-> "none"]
NoResponse == [kind |-> "none"]
NoTrace == [route |-> "none"]

\* The limiter as the module leaves it when loaded.
RateIdle ==
    /\ now = 0
    /\ requestCounts = << >>
    /\ lastCleanup = 0
    /\ accepted = [ip \in Identities |-> << >>]
    /\ limitedAt = [ip \in Identities |-> {}]
    /\ lastCall = NoCall
    /\ unswept = << >>

\* No handler is waiting for a fetch, and requests are served one at a time.
FetchIdle ==
    /\ pc = "idle"
    /\ fetches = << >>
    /\ timers = << >>
    /\ inflight = << >>
    /\ puts = << >>

\* No request in flight, an empty bucket.
ServerIdle ==
    /\ store = << >>
    /\ request = NoRequest
    /\ response = NoResponse
    /\ trace = NoTrace
    /\ genOk = << >>
    /\ served = << >>
    /\ faulted = FALSE

InitRate ==
    /\ FetchIdle
    /\ RateIdle
    /\ ServerIdle
    /\ env = [API_KEY |-> JS_UNDEFINED, R2_BUCKET |-> FALSE, TMDB_API_KEY |-> JS_UNDEFINED]

\* A call of isRateLimited by one identity at the current clock value.
CallIsRateLimited(ip) ==
    LET r == isRateLimited(requestCounts, lastCleanup, ip, now)
    IN  /\ r.limited \/ Len(accepted[ip]) < AcceptBudget(ip)
        /\ requestCounts' = r.requestCounts
        /\ lastCleanup' = r.lastCleanup
        /\ accepted' = IF r.limited THEN accepted
                       ELSE [accepted EXCEPT ![ip] = Append(@, now)]
        /\ limitedAt' = IF r.limited THEN [limitedAt EXCEPT ![ip] = @ \cup {now}]
                        ELSE limitedAt
        /\ lastCall' = [ip |-> ip, at |-> now, limited |-> r.limited,
                        before |-> InWindow(accepted[ip], now)]
        /\ unswept' = isRateLimited_NeverSweeps(unswept, lastCleanup, ip, now).requestCounts
        /\ UNCHANGED <<now, cacheVars, reqVars, fetchVars, concVars>>

\* The clock advances to a later instant.
Tick ==
    /\ \E t \in Instants : t > now /\ now' = t
    /\ UNCHANGED <<requestCounts, lastCleanup, accepted, limitedAt, lastCall, unswept>>
    /\ UNCHANGED <<cacheVars, reqVars, fetchVars, concVars>>

NextRate ==
    \/ \E ip \in Identities : CallIsRateLimited(ip)
    \/ Tick

SpecRate == InitRate /\ [][NextRate]_vars

-----------------------------------------------------------------------------
(* Provider registry: part_000 lines 43-89 and 128-135                     *)

DigitTokens == {"550", "1292052"}
TitleTokens == {"tt0137523"}

\* A regex is the sequence of the token classes it matches one after the
\* other, and the positions in it of its capture groups.
URL_PROVIDERS == <<
    [name |-> <<"douban">>, domains |-> {"movie.douban.com"},
     regex |-> [pattern |-> <<{"/"}, {"subject"}, {"/"}, DigitTokens>>, groups |-> <<4>>],
     idFormatter |-> "first", generator |-> "gen_douban", formatter |-> "generateDoubanFormat"],
    [name |-> <<"imdb">>, domains |-> {"www.imdb.com"},
     regex |-> [pattern |-> <<{"/"}, {"title"}, {"/"}, TitleTokens>>, groups |-> <<4>>],
     idFormatter |-> "first", generator |-> "gen_imdb", formatter |-> "generateImdbFormat"],
    [name |-> <<"tmdb">>, domains |-> {"api.themoviedb.org", "www.themoviedb.org"},
     regex |-> [pattern |-> <<{"/"}, {"movie", "tv"}, {"/"}, DigitTokens>>, groups |-> <<2, 4>>],
     idFormatter |-> "pair", generator |-> "gen_tmdb", formatter |-> "generateTmdbFormat"],
    [name |-> <<"melon">>, domains |-> {"www.melon.com"},
     regex |-> [pattern |-> <<{"/"}, {"album"}, {"/"}, {"detail.htm?albumId="}, DigitTokens>>,
                groups |-> <<5>>],
     idFormatter |-> "album", generator |-> "gen_melon", formatter |-> "generateMelonFormat"],
    [name |-> <<"bangumi">>, domains |-> {"bgm.tv", "bangumi.tv"},
     regex |-> [pattern |-> <<{"/"}, {"subject"}, {"/"}, DigitTokens>>, groups |-> <<4>>],
     idFormatter |-> "first", generator |-> "gen_bangumi", formatter |-> "generateBangumiFormat"],
    [name |-> <<"steam">>, domains |-> {"store.steampowered.com"},
     regex |-> [pattern |-> <<{"/"}, {"app"}, {"/"}, DigitTokens>>, groups |-> <<4>>],
     idFormatter |-> "first", generator |-> "gen_steam", formatter |-> "generateSteamFormat"] >>

PROVIDER_CONFIG ==
    [k \in {<<"douban">>, <<"imdb">>, <<"tmdb">>, <<"bgm">>, <<"melon">>, <<"steam">>} |->
        CASE k = <<"douban">> -> [generator |-> "gen_douban", formatter |-> "generateDoubanFormat"]
          [] k = <<"imdb">>   -> [generator |-> "gen_imdb", formatter |-> "generateImdbFormat"]
          [] k = <<"tmdb">>   -> [generator |-> "gen_tmdb", formatter |-> "generateTmdbFormat"]
          [] k = <<"bgm">>    -> [generator |-> "gen_bangumi", formatter |-> "generateBangumiFormat"]
          [] k = <<"melon">>  -> [generator |-> "gen_melon", formatter |-> "generateMelonFormat"]
          [] k = <<"steam">>  -> [generator |-> "gen_steam", formatter |-> "generateSteamFormat"]]

\* Whether the regex matches the tokens of s that start at position i.
matchesAt(s, regex, i) ==
    /\ i + Len(regex.pattern) - 1 <= Len(s)
    /\ \A k \in 1..Len(regex.pattern) : s[i + k - 1] \in regex.pattern[k]

NoMatch == << >>

\* s.match(regex): the capture groups of the leftmost match, or no match.
regexMatch(s, regex) ==
    LET hits == {i \in 1..Len(s) : matchesAt(s, regex, i)}
    IN  IF hits = {} THEN NoMatch
        ELSE LET i == CHOOSE h \in hits : \A g \in hits : h <= g
             IN  [k \in 1..Len(regex.groups) |-> s[i + regex.groups[k] - 1]]

\* provider.idFormatter ? provider.idFormatter(match) : match[1]
formatId(provider, match) ==
    CASE provider.idFormatter = "pair"  -> <<match[1], "/", match[2]>>
      [] provider.idFormatter = "album" -> <<"album", "/", match[1]>>
      [] OTHER                          -> <<match[1]>>

findProvider_Last(url_) ==
    LET found == {i \in 1..Len(URL_PROVIDERS) :
                    \E domain \in URL_PROVIDERS[i].domains : includes(url_, domain)}
    IN  IF found = {} THEN 0 ELSE CHOOSE i \in found : \A j \in found : i >= j

\* URL_PROVIDERS.find(p => p.domains.some(domain => url_.includes(domain))):
\* the position of the first such provider, 0 when there is none.
findProvider(url_) ==
    LET found == {i \in 1..Len(URL_PROVIDERS) :
                    \E domain \in URL_PROVIDERS[i].domains : includes(url_, domain)}
    IN  IF found = {} THEN 0 ELSE CHOOSE i \in found : \A j \in found : i <= j

resourceIdOf_NoName(name, sid) == replaceAll(sid, "/", "_")

\* `${name}_${sid.replace(/\//g, '_')}`
resourceIdOf(name, sid) == name \o <<"_">> \o replaceAll(sid, "/", "_")

-----------------------------------------------------------------------------
(* Generators and formatters, seen from the dispatcher. What a generator   *)
(* returns depends on the upstream site: it is an outcome of the call.     *)

GenOutcomes == {"ok1", "ok2", "error", "undefined"}

\* The generators that set data.format themselves before returning.
SetsFormat == {"gen_tmdb", "gen_imdb", "gen_bangumi", "gen_melon", "gen_steam"}

siteOf(generator) ==
    CASE generator = "gen_douban"  -> <<"douban">>
      [] generator = "gen_imdb"    -> <<"imdb">>
      [] generator = "gen_tmdb"    -> <<"tmdb">>
      [] generator = "gen_bangumi" -> <<"bangumi">>
      [] generator = "gen_melon"   -> <<"melon">>
      [] generator = "gen_steam"   -> <<"steam">>

formatterOf(generator) ==
    CASE generator = "gen_douban"  -> "generateDoubanFormat"
      [] generator = "gen_imdb"    -> "generateImdbFormat"
      [] generator = "gen_tmdb"    -> "generateTmdbFormat"
      [] generator = "gen_bangumi" -> "generateBangumiFormat"
      [] generator = "gen_melon"   -> "generateMelonFormat"
      [] generator = "gen_steam"   -> "generateSteamFormat"

\* formatter(record): the rendered text is a function of the record's data.
format(formatter, record) == <<formatter>> \o Get(record, "title")

\* generator(sid, env) for one outcome of the upstream site.
generate(generator, sid, outcome) ==
    LET base == [site |-> siteOf(generator), sid |-> sid]
        data == spread(base, [title |-> IF outcome = "ok1" THEN <<"v1">> ELSE <<"v2">>,
                              aka |-> JS_UNDEFINED])
        full == IF generator \in SetsFormat
                THEN spread(data, [format |-> format(formatterOf(generator), data)])
                ELSE data
    IN  CASE outcome \in {"ok1", "ok2"} -> spread(full, [success |-> JS_TRUE])
          [] outcome = "error"          -> spread(base, [error |-> <<"upstream error">>])
          [] OTHER                      -> UndefinedObject

\* The outcomes the generator can have: only gen_imdb can return undefined.
outcomesOf(generator) ==
    IF generator = "gen_imdb" THEN GenOutcomes ELSE GenOutcomes \ {"undefined"}

-----------------------------------------------------------------------------
(* Cache-aside executor: part_000 lines 999-1028                           *)

GetOutcomes == {"ok", "throws", "corrupt"}
PutOutcomes == {"ok", "throws"}

bucketPut_KeepsFirst(st, key, text) ==
    [k \in DOMAIN st \cup {key} |-> IF k \in DOMAIN st THEN st[k] ELSE text]

\* env.R2_BUCKET.put(key, text)
bucketPut(st, key, text) ==
    [k \in DOMAIN st \cup {key} |-> IF k = key THEN text ELSE st[k]]

lightweight_KeepsFormat(freshData) == freshData

\* const lightweightResult = { ...freshData }; delete lightweightResult.format
lightweight(freshData) == deleteProp(freshData, "format")

shouldStore_Always(freshData, bucket) == bucket

\* freshData?.success && env.R2_BUCKET
shouldStore(freshData, bucket) == truthy(Get(freshData, "success")) /\ bucket

cacheHit_Never(st, resourceId, bucket, o) == FALSE

\* The try block of the read: the cached record when get and json succeed
\* on an existing entry.
cacheHit(st, resourceId, bucket, o) ==
    bucket /\ o.get = "ok" /\ resourceId \in DOMAIN st

\* How the read ended: no bucket bound, a hit, a miss, get threw, or json()
\* rejected the text of an existing entry.
readStatus(st, resourceId, bucket, o) ==
    IF ~bucket THEN "none"
    ELSE IF o.get = "throws" THEN "throws"
    ELSE IF resourceId \notin DOMAIN st THEN "miss"
    ELSE IF o.get = "corrupt" THEN "corrupt" ELSE "hit"

catchesWrite_Missing == FALSE

\* catch (e) { console.error(...) } around the read and around the write.
catchesRead == TRUE
catchesWrite == TRUE

\* provider.generator when provider is not an entry of PROVIDER_CONFIG:
\* calling it throws a TypeError.
NotAFunction == "undefined"

\* _withCache(resourceId, () => generator(genSid, env), env) for the outcomes
\* o of the bucket operations and of the generator: what it returns or
\* whether it throws, the bucket it leaves, and what it did.
withCache(resourceId, generator, genSid, st, bucket, o) ==
    LET read == readStatus(st, resourceId, bucket, o)
        freshData == generate(generator, genSid, o.gen)
        write == shouldStore(freshData, bucket)
    IN  IF cacheHit(st, resourceId, bucket, o)
        THEN [threw |-> FALSE, result |-> JSON_parse(st[resourceId]), store |-> st,
              generated |-> FALSE, fresh |-> UndefinedObject, get |-> read, put |-> "none"]
        ELSE IF read \in {"throws", "corrupt"} /\ ~catchesRead
        THEN [threw |-> TRUE, result |-> UndefinedObject, store |-> st,
              generated |-> FALSE, fresh |-> UndefinedObject, get |-> read, put |-> "none"]
        ELSE IF generator = NotAFunction
        THEN [threw |-> TRUE, result |-> UndefinedObject, store |-> st,
              generated |-> FALSE, fresh |-> UndefinedObject, get |-> read, put |-> "none"]
        ELSE [threw |-> write /\ o.put = "throws" /\ ~catchesWrite,
              result |-> freshData,
              store |-> IF write /\ o.put = "ok"
                        THEN bucketPut(st, resourceId, JSON_stringify(lightweight(freshData)))
                        ELSE st,
              generated |-> TRUE, fresh |-> freshData, get |-> read,
              put |-> IF write THEN o.put ELSE "none"]

-----------------------------------------------------------------------------
(* Responses: common.js lines 10-16, 353-389                               *)

VERSION == <<"1.0.3">>

DEFAULT_BODY_TEMPLATE ==
    [success |-> JS_FALSE, error |-> JS_NULL, format |-> << >>,
     version |-> VERSION, generate_at |-> <<"0">>]

\* makeJsonRawResponse(body): no initOverride is ever passed, status 200.
makeJsonRawResponse(body) ==
    [kind |-> "json", status |-> 200, body |-> JSON_stringify(body)]

\* makeJsonResponse(body_update, env): it has two parameters, so the status
\* some callers pass as a third argument is dropped.
makeJsonResponse(body_update, t, statusArgument) ==
    makeJsonRawResponse(
        spread(spread(DEFAULT_BODY_TEMPLATE,
                      [copyright |-> <<"Powered by @", "Hares">>,
                       generate_at |-> <<ToString(t)>>]),
               body_update))

-----------------------------------------------------------------------------
(* URL dispatcher: part_000 lines 804-832                                  *)

NoCache == [threw |-> FALSE, result |-> UndefinedObject, store |-> << >>,
            generated |-> FALSE, fresh |-> UndefinedObject, get |-> "none", put |-> "none"]

\* What the handler did: the route taken and, when it reached the cache
\* executor, the key, the generator and its argument, whether the generator
\* ran and what it returned, what _withCache returned, and how the bucket
\* operations ended.
traceOf(route, resourceId, generator, genSid, c) ==
    [route |-> route, resourceId |-> resourceId, generator |-> generator,
     genSid |-> genSid, generated |-> c.generated, fresh |-> c.fresh,
     returned |-> c.result, threw |-> c.threw, get |-> c.get, put |-> c.put]

noCacheTrace(route) == traceOf(route, << >>, "none", << >>, NoCache)

attachFormat_Never(result, formatter) == result

\* if (result?.success) result.format = formatter(result)
attachFormat(result, formatter) ==
    IF truthy(Get(result, "success"))
    THEN spread(result, [format |-> format(formatter, result)])
    ELSE result

\* handleUrlRequest(url_, env): the record it returns or whether it throws,
\* the bucket it leaves and what it did.
handleUrlRequest(url_, st, bucket, o) ==
    LET p == findProvider(url_)
    IN  IF p = 0
        THEN [threw |-> FALSE,
              result |-> [success |-> JS_FALSE, error |-> <<"Unsupported URL">>],
              store |-> st, trace |-> noCacheTrace("url")]
        ELSE
        LET provider == URL_PROVIDERS[p]
            match == regexMatch(url_, provider.regex)
        IN  IF match = NoMatch
            THEN [threw |-> FALSE,
                  result |-> [success |-> JS_FALSE,
                              error |-> <<"Invalid ">> \o provider.name \o <<" URL">>],
                  store |-> st, trace |-> noCacheTrace("url")]
            ELSE
            LET sid == formatId(provider, match)
                resourceId == resourceIdOf(provider.name, sid)
                c == withCache(resourceId, provider.generator, sid, st, bucket, o)
            IN  [threw |-> c.threw,
                 result |-> attachFormat(c.result, provider.formatter),
                 store |-> c.store,
                 trace |-> traceOf("url", resourceId, provider.generator, sid, c)]

-----------------------------------------------------------------------------
(* Query routing: part_000 lines 640-731, 1037-1086                        *)

\* The code point of each character the queries of the model are made of;
\* the CJK characters are named by their code point.
codePoint(c) ==
    CASE c = " " -> 32
      [] c = "2" -> 50
      [] c = "7" -> 55
      [] c = "A" -> 65
      [] c = "I" -> 73
      [] c = "M" -> 77
      [] c = "a" -> 97
      [] c = "e" -> 101
      [] c = "g" -> 103
      [] c = "n" -> 110
      [] c = "o" -> 111
      [] c = "r" -> 114
      [] c = "s" -> 115
      [] c = "v" -> 118
      [] c = "U+4EC7" -> 20167
      [] c = "U+590D" -> 22797
      [] c = "U+76DF" -> 30175
      [] c = "U+8005" -> 32773
      [] c = "U+8054" -> 32852

\* A character class is the set of its ranges and single characters, each a
\* pair of code points. chineseRegex has no u flag, so \u20000-\u2a6df is
\* the character \u2000, the range from '0' to \u2a6d and the letter f, and
\* likewise for the three groups after it.
chineseRegex ==
    {<<19968, 40959>>, <<13312, 19903>>,
     <<8192, 8192>>, <<48, 10861>>, <<102, 102>>,
     <<10864, 10864>>, <<48, 11123>>, <<102, 102>>,
     <<11124, 11124>>, <<48, 11137>>, <<102, 102>>,
     <<11138, 11138>>, <<48, 11498>>, <<102, 102>>,
     <<63744, 64255>>}

\* /[a-zA-Z]/g
englishRegex == {<<97, 122>>, <<65, 90>>}

\* (text.match(regex) || []).length
matchCount(text, regex) ==
    Cardinality({i \in 1..Len(text) :
                    \E range \in regex : codePoint(text[i]) \in range[1]..range[2]})

\* text.trim()
RECURSIVE trim(_)
trim(text) ==
    IF text = << >> THEN text
    ELSE IF Head(text) = " " THEN trim(Tail(text))
    ELSE IF text[Len(text)] = " " THEN trim(SubSeq(text, 1, Len(text) - 1))
    ELSE text

\* isChineseText(text), text being a string.
isChineseText(text) ==
    IF trim(text) = << >> THEN FALSE
    ELSE IF matchCount(text, chineseRegex) + matchCount(text, englishRegex) < 2
    THEN matchCount(text, chineseRegex) > 0
    ELSE matchCount(text, chineseRegex) > matchCount(text, englishRegex)

\* What an upstream fetch does, and what the body of an ok response holds.
FetchOutcomes == {"ok", "not-ok", "rejects", "aborts"}
BodyOutcomes == {"results", "empty", "unparseable"}

\* The outcomes of the fetches of one search: the suggestion API and the
\* result page of IMDb, the movie and the tv search of TMDB.
DefaultSearch ==
    [api |-> "ok", apiBody |-> "results", scrape |-> "ok", scrapeBody |-> "results",
     movie |-> "ok", movieBody |-> "results", tv |-> "ok", tvBody |-> "results"]

\* The body of a response that is not ok, or never came, is not read.
Settled(fetch, body) == fetch = "ok" \/ body = "results"

SearchOutcomes ==
    {s \in [api : FetchOutcomes, apiBody : BodyOutcomes,
            scrape : FetchOutcomes, scrapeBody : BodyOutcomes,
            movie : {"ok"}, movieBody : {"results"}, tv : {"ok"}, tvBody : {"results"}] :
        Settled(s.api, s.apiBody) /\ Settled(s.scrape, s.scrapeBody)}
    \cup
    {s \in [api : {"ok"}, apiBody : {"results"}, scrape : {"ok"}, scrapeBody : {"results"},
            movie : FetchOutcomes, movieBody : BodyOutcomes,
            tv : FetchOutcomes, tvBody : BodyOutcomes] :
        Settled(s.movie, s.movieBody) /\ Settled(s.tv, s.tvBody)}

\* The error a rejected fetch throws.
fetchError(fetch) ==
    IF fetch = "aborts" THEN [name |-> <<"AbortError">>, message |-> <<"The operation was aborted">>]
    ELSE [name |-> <<"TypeError">>, message |-> <<"fetch failed">>]

\* handleSearchError(source, query, error)
handleSearchError(source, query, error) ==
    [success |-> JS_FALSE, data |-> << >>,
     error |-> IF Get(error, "name") = <<"AbortError">>
               THEN source \o <<" API request timeout">>
               ELSE IF truthy(Get(error, "message")) THEN error.message
               ELSE <<"Failed to search ">> \o source \o <<" for: ">> \o query \o <<".">>
                    \o (IF Get(error, "name") = <<"TypeError">> THEN <<" Network or API error.">>
                        ELSE IF Get(error, "code") = <<"ETIMEDOUT">> THEN <<" Request timed out.">>
                        ELSE <<" Please try again later.">>)]

searchViaApi_IgnoresStatus(s) ==
    IF s.apiBody = "results" THEN <<"imdb suggestion">> ELSE JS_NULL

\* _searchViaApi(query): the processed list, or null.
searchViaApi(s) ==
    IF s.api = "ok" /\ s.apiBody = "results" THEN <<"imdb suggestion">> ELSE JS_NULL

\* _searchViaScraping(query): the processed list, or the error it throws.
searchViaScraping(s) ==
    CASE s.scrape \in {"rejects", "aborts"} -> [threw |-> TRUE, error |-> fetchError(s.scrape)]
      [] s.scrape = "not-ok" ->
            [threw |-> TRUE,
             error |-> [name |-> <<"Error">>, message |-> <<"IMDb scrape failed with status 503">>]]
      [] OTHER ->
            [threw |-> FALSE,
             data |-> IF s.scrapeBody = "results" THEN <<"imdb find result">> ELSE << >>]

found_Always(searchData) == TRUE

\* searchData && searchData.length > 0
found(searchData) == truthy(searchData) /\ Len(searchData) > 0

NoResultsFound ==
    [success |-> JS_FALSE, error |-> <<"No results found for the given query">>, data |-> << >>]

\* The end of search_imdb, searchData being the list it is left with.
imdbResult(searchData) ==
    IF found(searchData) THEN [success |-> JS_TRUE, data |-> searchData]
    ELSE NoResultsFound

\* search_imdb(query)
search_imdb(query, s) ==
    IF found(searchViaApi(s)) THEN imdbResult(searchViaApi(s))
    ELSE IF searchViaScraping(s).threw
    THEN handleSearchError(<<"IMDb">>, query, searchViaScraping(s).error)
    ELSE imdbResult(searchViaScraping(s).data)

\* parseAndPushResults(response, type): what it pushes to results.
parsedResults(fetch, body, type) ==
    IF fetch = "ok" /\ body = "results" THEN <<type>> ELSE << >>

\* The end of search_tmdb, results being the list the two responses gave.
tmdbResult(results) ==
    IF Len(results) > 0 THEN [success |-> JS_TRUE, data |-> results]
    ELSE NoResultsFound

\* search_tmdb(query, env)
search_tmdb(query, e, s) ==
    IF ~truthy(e.TMDB_API_KEY)
    THEN [success |-> JS_FALSE, error |-> <<"TMDB API key not configured">>, data |-> << >>]
    ELSE IF trim(query) = << >>
    THEN [success |-> JS_FALSE, error |-> <<"Invalid query">>, data |-> << >>]
    ELSE IF s.movie = "aborts" \/ s.tv = "aborts"
    THEN [success |-> JS_FALSE, error |-> <<"TMDB API request timeout">>, data |-> << >>]
    ELSE IF s.movie = "rejects" \/ s.tv = "rejects"
    THEN [success |-> JS_FALSE,
          error |-> <<"TMDB API network error: ">> \o fetchError("rejects").message,
          data |-> << >>]
    ELSE tmdbResult(parsedResults(s.movie, s.movieBody, "movie")
                    \o parsedResults(s.tv, s.tvBody, "tv"))

\* What a search handler did: the backend it called and what that returned.
searchTrace(route, backend, result) ==
    traceOf(route, << >>, backend, << >>, [NoCache EXCEPT !.result = result])

\* result.error || result.message || fallback
errorOf(result, fallback) ==
    IF truthy(Get(result, "error")) THEN result.error
    ELSE IF truthy(Get(result, "message")) THEN result.message
    ELSE fallback

\* handleImdbSearch(query, env), result being what search_imdb returned.
handleImdbSearch(result, t) ==
    IF ~truthy(result.success) \/ ~truthy(result.data) \/ Len(result.data) = 0
    THEN makeJsonResponse([success |-> JS_FALSE,
                           error |-> errorOf(result, <<"IMDb search found no results">>),
                           data |-> << >>], t, 0)
    ELSE makeJsonResponse([success |-> JS_TRUE, data |-> result.data,
                           site |-> <<"search-imdb">>], t, 0)

\* handleTmdbSearch(query, env), result being what search_tmdb returned.
handleTmdbSearch(result, t) ==
    IF ~truthy(result.success)
    THEN makeJsonResponse([success |-> JS_FALSE,
                           error |-> errorOf(result, <<"TMDB search failed">>),
                           data |-> << >>], t, 0)
    ELSE IF ~truthy(result.data) \/ Len(result.data) = 0
    THEN makeJsonResponse([success |-> JS_FALSE,
                           error |-> <<"TMDB search found no results">>,
                           data |-> << >>], t, 0)
    ELSE makeJsonResponse([success |-> JS_TRUE, data |-> result.data,
                           site |-> <<"search-tmdb">>], t, 0)

\* A search handler's answer together with what it did.
searched(route, backend, result, resp) ==
    [response |-> resp, trace |-> searchTrace(route, backend, result)]

\* handleSearchRequest(source, query, env), source being a string.
handleSearchRequest(source, query, e, s, t) ==
    CASE toLowerCase(source) = <<"imdb">> ->
            searched("search", "search_imdb", search_imdb(query, s),
                     handleImdbSearch(search_imdb(query, s), t))
      [] toLowerCase(source) = <<"tmdb">> ->
            searched("search", "search_tmdb", search_tmdb(query, e, s),
                     handleTmdbSearch(search_tmdb(query, e, s), t))
      [] OTHER ->
            [response |-> makeJsonResponse(
                              [success |-> JS_FALSE,
                               error |-> <<"Invalid source. Supported sources: imdb, tmdb">>],
                              t, 0),
             trace |-> noCacheTrace("search")]

\* The end of handleAutoSearch, searchResult being what the backend returned.
autoResponse(searchResult, name, site, t) ==
    IF ~truthy(searchResult.success)
    THEN makeJsonResponse(
             [success |-> JS_FALSE,
              error |-> errorOf(searchResult,
                                name \o <<" search failed due to an unknown reason.">>),
              data |-> << >>], t, 0)
    ELSE IF Len(searchResult.data) = 0
    THEN makeJsonResponse([success |-> JS_FALSE, error |-> name \o <<" | No results found">>,
                           data |-> << >>], t, 0)
    ELSE makeJsonResponse([success |-> JS_TRUE, data |-> searchResult.data, site |-> site],
                          t, 0)

\* handleAutoSearch(query, env), query being a non-empty string.
handleAutoSearch(query, e, s, t) ==
    IF trim(query) = << >>
    THEN [response |-> makeJsonResponse(
                           [success |-> JS_FALSE,
                            error |-> <<"Query parameter is missing or invalid.">>,
                            data |-> << >>], t, 0),
          trace |-> noCacheTrace("auto")]
    ELSE IF isChineseText(query)
    THEN searched("auto", "search_tmdb", search_tmdb(query, e, s),
                  autoResponse(search_tmdb(query, e, s), <<"TMDB">>, <<"search-tmdb">>, t))
    ELSE searched("auto", "search_imdb", search_imdb(query, s),
                  autoResponse(search_imdb(query, s), <<"IMDb">>, <<"search-imdb">>, t))

routeOf_QueryFirst(params) ==
    IF truthy(params.source) /\ truthy(params.query) THEN "search"
    ELSE IF truthy(params.query) THEN "auto"
    ELSE IF truthy(params.url) THEN "url"
    ELSE IF truthy(IF truthy(params.tmdb_id) THEN <<"tmdb">> ELSE params.source)
            /\ truthy(IF truthy(params.tmdb_id) THEN params.tmdb_id ELSE params.sid)
         THEN "direct"
    ELSE "invalid"

\* The chain of if statements of handleQueryRequest: the branch it takes.
routeOf(params) ==
    IF truthy(params.url) THEN "url"
    ELSE IF truthy(params.source) /\ truthy(params.query) THEN "search"
    ELSE IF truthy(params.query) THEN "auto"
    ELSE IF truthy(IF truthy(params.tmdb_id) THEN <<"tmdb">> ELSE params.source)
            /\ truthy(IF truthy(params.tmdb_id) THEN params.tmdb_id ELSE params.sid)
         THEN "direct"
    ELSE "invalid"

\* The catch block of handleQueryRequest.
internalError(t) ==
    makeJsonResponse([success |-> JS_FALSE,
                      error |-> <<"Internal Server Error. Please contact the administrator.">>],
                     t, 500)

\* The property names PROVIDER_CONFIG inherits from Object.prototype: their
\* values are truthy and have neither a generator nor a formatter.
InheritedProperties == {<<"constructor">>}

\* !!PROVIDER_CONFIG[key]
isProperty(key) == key \in DOMAIN PROVIDER_CONFIG \/ key \in InheritedProperties

\* PROVIDER_CONFIG[key]
propertyOf(key) ==
    IF key \in DOMAIN PROVIDER_CONFIG THEN PROVIDER_CONFIG[key]
    ELSE [generator |-> NotAFunction, formatter |-> NotAFunction]

\* The branch of handleQueryRequest for tmdb_id, or source and sid.
directLookup(params, st, bucket, o) ==
    LET source == IF truthy(params.tmdb_id) THEN <<"tmdb">> ELSE params.source
        sid == IF truthy(params.tmdb_id) THEN params.tmdb_id ELSE params.sid
    IN  IF ~isProperty(toLowerCase(source))
        THEN [threw |-> FALSE, result |-> [error |-> <<"Unsupported source: ">> \o source],
              store |-> st, trace |-> noCacheTrace("direct")]
        ELSE
        LET provider == propertyOf(toLowerCase(source))
            decodedSid == replaceAll(sid, "_", "/")
            resourceId == resourceIdOf(source, sid)
            c == withCache(resourceId, provider.generator, decodedSid, st, bucket, o)
        IN  [threw |-> c.threw,
             result |-> attachFormat(c.result, provider.formatter),
             store |-> c.store,
             trace |-> traceOf("direct", resourceId, provider.generator, decodedSid, c)]

\* handleQueryRequest returns what a search handler answered; the bucket is
\* as it was.
answered(h, st) == [response |-> h.response, store |-> st, trace |-> h.trace]

\* handleQueryRequest, after _extractParams: the response, the bucket it
\* leaves and what it did.
handleQueryRequest(params, st, e, o, t) ==
    LET route == routeOf(params)
        lookup == IF route = "url" THEN handleUrlRequest(params.url, st, e.R2_BUCKET, o)
                  ELSE directLookup(params, st, e.R2_BUCKET, o)
    IN  CASE route \in {"url", "direct"} ->
                [response |-> IF lookup.threw THEN internalError(t)
                              ELSE makeJsonResponse(lookup.result, t, 0),
                 store |-> lookup.store, trace |-> lookup.trace]
          [] route = "search" ->
                answered(handleSearchRequest(params.source, params.query, e, o.search, t), st)
          [] route = "auto" ->
                answered(handleAutoSearch(params.query, e, o.search, t), st)
          [] OTHER ->
                [response |-> makeJsonResponse(
                                  [error |-> <<"Invalid parameters. Please provide 'url', 'query', or 'source' and 'sid'.">>],
                                  t, 0),
                 store |-> st, trace |-> noCacheTrace("invalid")]

-----------------------------------------------------------------------------
(* The query endpoint served request by request                            *)

U_tmdb == <<"https://", "www.themoviedb.org", "/", "movie", "/", "550">>
U_imdb == <<"https://", "www.imdb.com", "/", "title", "/", "tt0137523", "/">>
U_unknown == <<"https://", "example.com", "/", "unknown">>
U_invalid == <<"https://", "www.themoviedb.org", "/", "person", "/", "550">>
U_douban == <<"https://", "movie.douban.com", "/", "subject", "/", "1292052", "/">>
\* A URL with the domains of two providers, the later declared one first.
U_both == <<"https://", "bgm.tv", "/", "subject", "/", "550", "?from=", "movie.douban.com">>
\* A URL of imdb that only the regex of a later provider matches.
U_shadowed == <<"https://", "www.imdb.com", "/", "subject", "/", "550", "?ref=", "bgm.tv">>

\* The values each parameter takes: absent (null), empty, or a text.
UrlValues ==
    {JS_NULL, << >>, U_tmdb, U_imdb, U_unknown, U_invalid, U_douban, U_both, U_shadowed}
SourceValues == {JS_NULL, <<"tmdb">>, <<"TMDB">>, <<"foo">>, <<"constructor">>}
\* Queries, character by character: Avengers, A, two CJK queries, Iron Man 2,
\* 7, a CJK character with a Latin letter, and a blank.
Q_avengers == <<"A", "v", "e", "n", "g", "e", "r", "s">>
Q_cjk == <<"U+590D", "U+4EC7", "U+8005", "U+8054", "U+76DF">>
Q_ironman2 == <<"I", "r", "o", "n", " ", "M", "a", "n", " ", "2">>
QueryValues ==
    {JS_NULL, Q_avengers, <<"A">>, Q_cjk, <<"U+590D">>, Q_ironman2, <<"7">>,
     <<"U+590D", "A">>, <<" ">>}

TMDB_KEY == <<"tmdb-key">>
TmdbIdValues == {JS_NULL, <<"550">>}
SidValues == {JS_NULL, <<"movie", "/", "550">>}

\* Every combination of the parameters.
ParamSets ==
    [source : SourceValues, query : QueryValues, url : UrlValues,
     tmdb_id : TmdbIdValues, sid : SidValues]

NoParams ==
    [source |-> JS_NULL, query |-> JS_NULL, url |-> JS_NULL, tmdb_id |-> JS_NULL,
     sid |-> JS_NULL]

\* The requests that reach the cache executor or stop just before it: by
\* URL, and by source and sid for a resource a URL also names.
LookupParams ==
    {[NoParams EXCEPT !.url = u] : u \in {U_tmdb, U_imdb, U_unknown, U_invalid}}
    \cup {[NoParams EXCEPT !.source = <<"tmdb">>, !.sid = <<"movie", "/", "550">>]}

\* The outcomes of what a lookup calls, and of what a search calls.
LookupOutcomes ==
    [get : GetOutcomes, gen : GenOutcomes, put : PutOutcomes, search : {DefaultSearch}]
SearchOnlyOutcomes == [get : {"ok"}, gen : {"ok1"}, put : {"ok"}, search : SearchOutcomes]

\* Everything a handler calls succeeds.
AllGood == [get |-> "ok", gen |-> "ok1", put |-> "ok", search |-> DefaultSearch]


\* How many successful generations of one resource a run of the model holds.
MaxGenerations == 2

count(history, key) == IF key \in DOMAIN history THEN history[key] ELSE 0
members(history, key) == IF key \in DOMAIN history THEN history[key] ELSE {}

\* The payload of a JSON response: its body without format and generate_at.
payloadOf(resp) == deleteProp(deleteProp(resp.body.json, "format"), "generate_at")

Init ==
    /\ FetchIdle
    /\ RateIdle
    /\ ServerIdle
    /\ env \in [API_KEY : {JS_UNDEFINED}, R2_BUCKET : BOOLEAN, TMDB_API_KEY : {TMDB_KEY}]

\* A request reaches the query endpoint with its parameters extracted.
ReceiveQuery(params) ==
    /\ request = NoRequest
    /\ request' = [kind |-> "query", params |-> params]
    /\ UNCHANGED <<response, trace, rateVars, concVars, cacheVars, fetchVars>>

\* The outcomes of the fetches a handler did not make are the default ones.
SearchUsed(backend, s) ==
    CASE backend = "search_imdb" ->
            /\ [s EXCEPT !.api = "ok", !.apiBody = "results", !.scrape = "ok",
                         !.scrapeBody = "results"] = DefaultSearch
            /\ found(searchViaApi(s)) => (s.scrape = "ok" /\ s.scrapeBody = "results")
      [] backend = "search_tmdb" ->
            [s EXCEPT !.movie = "ok", !.movieBody = "results", !.tv = "ok",
                      !.tvBody = "results"] = DefaultSearch
      [] OTHER -> s = DefaultSearch

\* handleQueryRequest serves the request, for some outcome of the bucket
\* operations, the generator and the search backend.
HandleQuery ==
    /\ request.kind = "query"
    /\ response = NoResponse
    /\ \E o \in IF routeOf(request.params) \in {"search", "auto"}
                THEN SearchOnlyOutcomes ELSE LookupOutcomes :
        /\ \E r \in {handleQueryRequest(request.params, store, env, o, now)} :
            LET rid == r.trace.resourceId
                ok == truthy(Get(r.trace.fresh, "success"))
            IN  /\ IF r.trace.generated THEN o.gen \in outcomesOf(r.trace.generator)
                                         ELSE o.gen = "ok1"
                /\ r.trace.get = IF o.get = "ok" THEN r.trace.get ELSE o.get
                /\ r.trace.put = IF o.put = "ok" THEN r.trace.put ELSE o.put
                /\ SearchUsed(r.trace.generator, o.search)
                /\ (r.trace.generated /\ ok) => count(genOk, rid) < MaxGenerations
                /\ response' = r.response
                /\ store' = r.store
                /\ trace' = r.trace
                /\ genOk' = IF r.trace.generated /\ ok
                            THEN bucketPut(genOk, rid, count(genOk, rid) + 1)
                            ELSE genOk
                /\ served' = IF rid /= << >> /\ r.response.body.json.success = JS_TRUE
                             THEN bucketPut(served, rid, members(served, rid) \cup {payloadOf(r.response)})
                             ELSE served
                /\ faulted' = (faulted \/ r.trace.get \in {"throws", "corrupt"}
                                       \/ r.trace.put = "throws")
    /\ UNCHANGED <<request, env, rateVars, concVars, fetchVars>>

\* The response is sent; the worker is idle again.
Deliver ==
    /\ response /= NoResponse
    /\ request' = NoRequest
    /\ response' = NoResponse
    /\ trace' = NoTrace
    /\ UNCHANGED <<rateVars, concVars, cacheVars, fetchVars>>

Next ==
    \/ \E params \in LookupParams : ReceiveQuery(params)
    \/ HandleQuery
    \/ Deliver

Spec == Init /\ [][Next]_vars

\* Routing alone: one request, with any combination of the parameters, has
\* reached the endpoint.
InitRoute ==
    /\ FetchIdle
    /\ RateIdle
    /\ store = << >>
    /\ request \in {[kind |-> "query", params |-> params] : params \in ParamSets}
    /\ response = NoResponse
    /\ trace = NoTrace
    /\ genOk = << >>
    /\ served = << >>
    /\ faulted = FALSE
    /\ env \in [API_KEY : {JS_UNDEFINED}, R2_BUCKET : BOOLEAN,
               TMDB_API_KEY : {JS_UNDEFINED, TMDB_KEY}]

NextRoute ==
    \/ HandleQuery
    \/ Deliver

SpecRoute == InitRoute /\ [][NextRoute]_vars

\* Lookups of one resource by either path: the URL of a TMDb, an IMDb, a
\* Douban or a Bangumi item, or a source in some letter case with a sid
\* written with / or with _, or a tmdb_id.
U_bangumi == <<"https://", "bgm.tv", "/", "subject", "/", "550">>
LookupUrls == {U_tmdb, U_imdb, U_douban, U_bangumi}
LookupSources ==
    {<<"tmdb">>, <<"TMDB">>, <<"imdb">>, <<"Douban">>, <<"douban">>, <<"bgm">>}
LookupSids ==
    {<<"movie", "/", "550">>, <<"movie", "_", "550">>, <<"550">>, <<"1292052">>,
     <<"tt0137523">>}
PathParams ==
    [source : LookupSources, query : {JS_NULL}, url : {JS_NULL},
     tmdb_id : {JS_NULL, <<"550">>, <<"movie", "/", "550">>}, sid : LookupSids]
    \cup [source : {JS_NULL}, query : {JS_NULL}, url : LookupUrls,
          tmdb_id : {JS_NULL}, sid : {JS_NULL}]

\* One lookup has reached the endpoint.
InitLookup ==
    /\ FetchIdle
    /\ RateIdle
    /\ store = << >>
    /\ request \in {[kind |-> "query", params |-> params] : params \in PathParams}
    /\ response = NoResponse
    /\ trace = NoTrace
    /\ genOk = << >>
    /\ served = << >>
    /\ faulted = FALSE
    /\ env \in [API_KEY : {JS_UNDEFINED}, R2_BUCKET : BOOLEAN, TMDB_API_KEY : {TMDB_KEY}]

SpecLookup == InitLookup /\ [][NextRoute]_vars

-----------------------------------------------------------------------------
(* HTTP entry: part_000 lines 196-218, 841-990, 1096-1146                  *)

\* The path segments the URL parser drops, and those for which it also
\* drops the segment before them.
SingleDotSegments == {".", "%2e"}
DoubleDotSegments == {"..", "%2e%2e"}

\* The URL parser percent-encodes '<' in the path and in the query.
percentEncode(c) == IF c = "<iframe" THEN "%3Ciframe" ELSE c

\* new URL(request.url): the segments of the path once the dot segments of
\* the request's path are resolved.
RECURSIVE resolveSegments(_, _)
resolveSegments(segments, output) ==
    IF segments = << >> THEN output
    ELSE LET segment == Head(segments)
             last == Len(segments) = 1
             shortened == SubSeq(output, 1, Len(output) - 1)
         IN  resolveSegments(Tail(segments),
                 CASE segment \in DoubleDotSegments ->
                          IF last THEN Append(shortened, "") ELSE shortened
                   [] segment \in SingleDotSegments ->
                          IF last THEN Append(output, "") ELSE output
                   [] OTHER -> Append(output, percentEncode(segment)))

RECURSIVE joinPath(_)
joinPath(segments) ==
    IF segments = << >> THEN << >>
    ELSE <<"/">> \o (IF Head(segments) = "" THEN << >> ELSE <<Head(segments)>>)
                 \o joinPath(Tail(segments))

\* new URL(request.url).pathname
pathnameOf(path) ==
    IF resolveSegments(path, << >>) = << >> THEN <<"/">>
    ELSE joinPath(resolveSegments(path, << >>))

QueryNames == <<"key", "source", "query", "url", "tmdb_id", "sid">>

\* new URL(request.url).search: the parameters the request carries.
RECURSIVE searchFrom(_, _)
searchFrom(query, i) ==
    IF i > Len(QueryNames) THEN << >>
    ELSE (IF query[QueryNames[i]] = JS_NULL THEN << >>
          ELSE <<"&", QueryNames[i], "=">>
               \o [k \in 1..Len(query[QueryNames[i]]) |-> percentEncode(query[QueryNames[i]][k])])
         \o searchFrom(query, i + 1)

searchOf(query) == searchFrom(query, 1)

\* /(\.{2,}\/)/g
DIRECTORY_TRAVERSAL_PATTERN == [pattern |-> <<{"..", "..."}, {"/"}>>, groups |-> <<1>>]
\* /(script|javascript|vbscript):/i
SCRIPT_PROTOCOL_PATTERN ==
    [pattern |-> <<{"script:", "javascript:", "JavaScript:", "vbscript:"}>>, groups |-> <<1>>]
\* /(<\s*iframe|<\s*object|<\s*embed)/i
EMBED_TAG_PATTERN == [pattern |-> <<{"<iframe", "<object", "<embed"}>>, groups |-> <<1>>]

\* regex.test(s)
test(regex, s) == regexMatch(s, regex) /= NoMatch

\* isMaliciousRequest(request.url). request.url is a string that parses, so
\* neither of the two early returns of true is taken.
isMaliciousRequest(req) ==
    \E p \in {DIRECTORY_TRAVERSAL_PATTERN, SCRIPT_PROTOCOL_PATTERN, EMBED_TAG_PATTERN} :
        test(p, pathnameOf(req.path)) \/ test(p, searchOf(req.query))

\* The first of the three ip headers that has a value, else 'unknown'.
clientIPOf(headers) ==
    IF truthy(headers.cf_connecting_ip) THEN headers.cf_connecting_ip
    ELSE IF truthy(headers.x_forwarded_for) THEN headers.x_forwarded_for
    ELSE IF truthy(headers.x_real_ip) THEN headers.x_real_ip
    ELSE <<"unknown">>

createErrorResponse(message, status) ==
    [kind |-> "json", status |-> status, body |-> JSON_stringify([error |-> message])]

\* handleRootRequest(env, isBrowser): the HTML page, or the JSON document.
handleRootRequest(e, isBrowser, t) ==
    IF isBrowser
    THEN [kind |-> "html", status |-> 200,
          body |-> [html |-> <<"Powered by @", "Hares">>]]
    ELSE makeJsonResponse(
             [Version |-> VERSION, Author |-> <<"Hares">>,
              Copyright |-> <<"Powered by @", "Hares">>,
              Security |-> IF truthy(e.API_KEY) THEN <<"API key required for access">>
                           ELSE <<"Open access">>],
             t, 0)

handleOptionsRequest == [kind |-> "empty", status |-> 204, body |-> [html |-> << >>]]

createNotFoundResponse(t) ==
    makeJsonResponse(
        [success |-> JS_FALSE,
         error |-> <<"API endpoint not found. Please check the documentation for valid endpoints.">>],
        t, 404)

\* The API-key block of validateRequest: "pass" when it lets the request go
\* on, else the response it returns.
keyCheck(req, e) ==
    IF truthy(e.API_KEY) /\ req.headers.x_internal_request /= <<"true">>
    THEN IF ~truthy(req.query.key)
         THEN IF pathnameOf(req.path) = <<"/">> /\ req.method = "GET"
              THEN "page" ELSE "required"
         ELSE IF req.query.key /= e.API_KEY THEN "invalid" ELSE "pass"
    ELSE "pass"

keyResponse(verdict, e, t) ==
    CASE verdict = "page" -> handleRootRequest(e, TRUE, t)
      [] verdict = "required" -> createErrorResponse(<<"API key required. Access denied.">>, 401)
      [] OTHER -> createErrorResponse(<<"Invalid API key. Access denied.">>, 401)

\* A return of validateRequest before the limiter is consulted.
rejected(resp, checks, counts, last) ==
    [valid |-> FALSE, response |-> resp, checks |-> checks, rate |-> "none",
     requestCounts |-> counts, lastCleanup |-> last]

\* The end of validateRequest, r being what isRateLimited(clientIP) did.
rateVerdict(r, checks) ==
    [valid |-> ~r.limited,
     response |-> IF r.limited
                  THEN createErrorResponse(<<"Rate limit exceeded. Please try again later.">>, 429)
                  ELSE NoResponse,
     checks |-> checks, rate |-> IF r.limited THEN "limited" ELSE "admitted",
     requestCounts |-> r.requestCounts, lastCleanup |-> r.lastCleanup]

validateRequest_RateFirst(req, e, counts, last, t) ==
    LET r == isRateLimited(counts, last, clientIPOf(req.headers)[1], t)
    IN  IF keyCheck(req, e) /= "pass"
        THEN rejected(keyResponse(keyCheck(req, e), e, t), <<"rate", "key">>,
                      r.requestCounts, r.lastCleanup)
        ELSE IF isMaliciousRequest(req)
        THEN rejected(createErrorResponse(<<"Malicious request detected. Access denied.">>, 403),
                      <<"rate", "key", "malicious">>, r.requestCounts, r.lastCleanup)
        ELSE rateVerdict(r, <<"rate", "key", "malicious">>)

validateRequest_MaliciousFirst(req, e, counts, last, t) ==
    IF isMaliciousRequest(req)
    THEN rejected(createErrorResponse(<<"Malicious request detected. Access denied.">>, 403),
                  <<"malicious">>, counts, last)
    ELSE IF keyCheck(req, e) /= "pass"
    THEN rejected(keyResponse(keyCheck(req, e), e, t), <<"malicious", "key">>, counts, last)
    ELSE rateVerdict(isRateLimited(counts, last, clientIPOf(req.headers)[1], t),
                     <<"malicious", "key", "rate">>)

\* validateRequest(request, corsHeaders, env) at clock value t: whether the
\* request is valid, the response when it is not, the checks made in their
\* order, and the limiter's map and sweep time afterwards.
validateRequest(req, e, counts, last, t) ==
    IF keyCheck(req, e) /= "pass"
    THEN rejected(keyResponse(keyCheck(req, e), e, t), <<"key">>, counts, last)
    ELSE IF isMaliciousRequest(req)
    THEN rejected(createErrorResponse(<<"Malicious request detected. Access denied.">>, 403),
                  <<"key", "malicious">>, counts, last)
    ELSE rateVerdict(isRateLimited(counts, last, clientIPOf(req.headers)[1], t),
                     <<"key", "malicious", "rate">>)

ParamNames == {"source", "query", "url", "tmdb_id", "sid"}

\* request.text() was read and JSON.parse(bodyText) returned an object. A
\* blank text is not parsed, a text that is not JSON makes JSON.parse throw,
\* and of the text null it returns null, of which body.source throws: the
\* catch logs each of the two and the query string is used.
parsedBody(req) ==
    /\ req.method = "POST"
    /\ truthy(req.headers.content_type)
    /\ includes(req.headers.content_type, "application/json")
    /\ req.body.kind = "json"

extractParams_QueryFirst(req) ==
    IF parsedBody(req)
    THEN [f \in ParamNames |-> IF truthy(req.query[f]) THEN req.query[f]
                                ELSE Get(req.body.json, f)]
    ELSE [f \in ParamNames |-> req.query[f]]

\* _extractParams(request, uri): for a POST with a JSON body that parses,
\* each parameter is body.x || searchParams.get(x); else searchParams.get(x).
extractParams(req) ==
    IF parsedBody(req)
    THEN [f \in ParamNames |-> IF truthy(Get(req.body.json, f)) THEN req.body.json[f]
                                ELSE req.query[f]]
    ELSE [f \in ParamNames |-> req.query[f]]

\* What handleRequest did: the branch taken, the checks validateRequest made,
\* what the limiter answered, and the parameters the query handler was
\* given and what it did if it ran.
httpTrace(route, validation, params, inner) ==
    [route |-> route, checks |-> validation.checks, rate |-> validation.rate,
     dispatched |-> route = "query", params |-> params, inner |-> inner]

\* handleRequest returns resp without calling the query handler.
answer(resp, route, validation, st) ==
    [response |-> resp, store |-> st,
     requestCounts |-> validation.requestCounts, lastCleanup |-> validation.lastCleanup,
     trace |-> httpTrace(route, validation, << >>, NoTrace)]

\* handleRequest returns what the query handler, which was given params and
\* did q, returned.
answerQuery(q, params, validation) ==
    [response |-> q.response, store |-> q.store,
     requestCounts |-> validation.requestCounts, lastCleanup |-> validation.lastCleanup,
     trace |-> httpTrace("query", validation, params, q.trace)]

\* handleRequest after validateRequest returned.
routeRequest(req, e, validation, st, o, t) ==
    IF ~validation.valid
    THEN answer(validation.response, "invalid", validation, st)
    ELSE IF pathnameOf(req.path) \in {<<"/">>, <<"/", "api">>} /\ req.method = "POST"
    THEN answerQuery(handleQueryRequest(extractParams(req), st, e, o, t),
                     extractParams(req), validation)
    ELSE IF pathnameOf(req.path) \in {<<"/">>, <<"/", "api">>} /\ req.method = "GET"
    THEN answer(handleRootRequest(e, TRUE, t), "page", validation, st)
    ELSE answer(createNotFoundResponse(t), "notfound", validation, st)

\* handleRequest(request, env) at clock value t, for the outcomes o of what
\* the query handler calls: the response, the bucket and the limiter state
\* it leaves, and what it did.
handleRequest(req, e, counts, last, st, o, t) ==
    IF req.method = "OPTIONS"
    THEN answer(handleOptionsRequest, "options",
                [checks |-> << >>, rate |-> "none", requestCounts |-> counts,
                 lastCleanup |-> last], st)
    ELSE routeRequest(req, e, validateRequest(req, e, counts, last, t), st, o, t)

-----------------------------------------------------------------------------
(* The worker served over HTTP, one request per run                        *)

API_KEY_VALUE == <<"secret">>

Methods == {"GET", "POST", "OPTIONS", "DELETE"}

\* Request paths as the client sends them, segment by segment: /, /api,
\* /other, /../../etc/passwd, /../api, /.../etc.
Paths ==
    {<< >>, <<"api">>, <<"other">>, <<"..", "..", "etc", "passwd">>, <<"..", "api">>,
     <<"...", "etc">>}

KeyValues == {JS_NULL, API_KEY_VALUE, <<"guess">>}

HttpUrlValues ==
    {JS_NULL, U_tmdb, <<"..", "/", "..", "/", "etc", "/", "passwd">>,
     <<"javascript:", "alert(1)">>, <<"<iframe", ">">>}

Queries ==
    {[key |-> k, source |-> JS_NULL, query |-> JS_NULL, url |-> u, tmdb_id |-> JS_NULL,
      sid |-> JS_NULL] : k \in KeyValues, u \in HttpUrlValues}

Headers ==
    [cf_connecting_ip : {JS_NULL}, x_forwarded_for : {JS_NULL, <<"1.1.1.1">>},
     x_real_ip : {JS_NULL}, x_internal_request : {JS_NULL, <<"true">>},
     content_type : {JS_NULL, <<"application/json">>}]

Bodies ==
    {[kind |-> "blank", json |-> [url |-> JS_UNDEFINED]],
     [kind |-> "invalid", json |-> [url |-> JS_UNDEFINED]],
     [kind |-> "json", json |-> [url |-> U_imdb]]}

\* Query strings that supply the lookup parameters: ?source=douban&sid=1292052,
\* ?url=<tmdb>&query=Avengers, and none.
ParamQueries ==
    {[key |-> JS_NULL, source |-> <<"douban">>, query |-> JS_NULL, url |-> JS_NULL,
      tmdb_id |-> JS_NULL, sid |-> <<"1292052">>],
     [key |-> JS_NULL, source |-> JS_NULL, query |-> Q_avengers, url |-> U_tmdb,
      tmdb_id |-> JS_NULL, sid |-> JS_NULL],
     [key |-> JS_NULL, source |-> JS_NULL, query |-> JS_NULL, url |-> JS_NULL,
      tmdb_id |-> JS_NULL, sid |-> JS_NULL]}

\* Bodies that supply some of the parameters: {}, {"source":"tmdb",
\* "sid":"movie/550"}, {"sid":"550"}, {"source":"","tmdb_id":"movie/550"},
\* {"url":<imdb>}, {"query":"7"}; the text null; a blank text; text that is
\* not JSON.
ParamBodies ==
    {[kind |-> "json", json |-> << >>],
     [kind |-> "json", json |-> [source |-> <<"tmdb">>, sid |-> <<"movie", "/", "550">>]],
     [kind |-> "json", json |-> [sid |-> <<"550">>]],
     [kind |-> "json", json |-> [source |-> << >>, tmdb_id |-> <<"movie", "/", "550">>]],
     [kind |-> "json", json |-> [url |-> U_imdb]],
     [kind |-> "json", json |-> [query |-> <<"7">>]],
     [kind |-> "null", json |-> << >>],
     [kind |-> "blank", json |-> << >>],
     [kind |-> "invalid", json |-> << >>]}

PlainHeaders ==
    [cf_connecting_ip : {JS_NULL}, x_forwarded_for : {JS_NULL},
     x_real_ip : {JS_NULL}, x_internal_request : {JS_NULL},
     content_type : {JS_NULL, <<"application/json">>, <<"text/plain">>}]

\* POSTs to / and /api whose body and query string both supply parameters.
ParamRequests ==
    [kind : {"http"}, method : {"POST"}, path : {<< >>, <<"api">>}, query : ParamQueries,
     headers : PlainHeaders, body : ParamBodies]

\* Only a POST carries a body and a content type.
HttpRequests ==
    {req \in [kind : {"http"}, method : Methods, path : Paths, query : Queries,
              headers : Headers, body : Bodies] :
        req.method = "POST" \/ (req.body.kind = "blank" /\ req.headers.content_type = JS_NULL)}
    \cup ParamRequests

\* The limiter's map when the request arrives: empty, one identity one call
\* short of the limit, or both identities at the limit, all calls made at 0.
stamps(n) == [k \in 1..n |-> 0]
RateStates ==
    {<< >>, [ip \in {"1.1.1.1"} |-> stamps(MAX_REQUESTS - 1)],
     [ip \in Identities |-> stamps(MAX_REQUESTS)]}

InitHttp ==
    /\ FetchIdle
    /\ now = 0
    /\ lastCleanup = 0
    /\ requestCounts \in RateStates
    /\ accepted = [ip \in Identities |->
                      IF ip \in DOMAIN requestCounts THEN requestCounts[ip] ELSE << >>]
    /\ limitedAt = [ip \in Identities |-> {}]
    /\ lastCall = NoCall
    /\ unswept = requestCounts
    /\ store = << >>
    /\ request \in HttpRequests
    /\ response = NoResponse
    /\ trace = NoTrace
    /\ genOk = << >>
    /\ served = << >>
    /\ faulted = FALSE
    /\ env \in [API_KEY : {JS_UNDEFINED, API_KEY_VALUE}, R2_BUCKET : {TRUE},
               TMDB_API_KEY : {TMDB_KEY}]

\* handleRequest serves the request.
HandleRequest ==
    /\ request.kind = "http"
    /\ response = NoResponse
    /\ \E o \in LookupOutcomes :
        /\ request.method = "POST" \/ o = AllGood
        /\ \E r \in {handleRequest(request, env, requestCounts, lastCleanup, store, o, now)},
              ip \in {clientIPOf(request.headers)[1]} :
            /\ IF r.trace.dispatched
               THEN /\ IF r.trace.inner.generated
                       THEN o.gen \in outcomesOf(r.trace.inner.generator)
                       ELSE o.gen = "ok1"
                    /\ r.trace.inner.get = IF o.get = "ok" THEN r.trace.inner.get ELSE o.get
                    /\ r.trace.inner.put = IF o.put = "ok" THEN r.trace.inner.put ELSE o.put
               ELSE o = AllGood
            /\ response' = r.response
            /\ store' = r.store
            /\ trace' = r.trace
            /\ requestCounts' = r.requestCounts
            /\ lastCleanup' = r.lastCleanup
            /\ accepted' = IF r.trace.rate = "admitted"
                           THEN [accepted EXCEPT ![ip] = Append(@, now)] ELSE accepted
            /\ limitedAt' = IF r.trace.rate = "limited"
                            THEN [limitedAt EXCEPT ![ip] = @ \cup {now}] ELSE limitedAt
            /\ lastCall' = IF r.trace.rate = "none" THEN lastCall
                           ELSE [ip |-> ip, at |-> now, limited |-> r.trace.rate = "limited",
                                 before |-> InWindow(accepted[ip], now)]
    /\ UNCHANGED <<now, request, env, genOk, served, faulted, fetchVars, unswept, concVars>>

NextHttp ==
    \/ HandleRequest
    \/ Deliver

SpecHttp == InitHttp /\ [][NextHttp]_vars

\* The instants at which a request reaches a worker that has run for a while:
\* a sweep of the limiter's map is due, with the calls made at 0 still in the
\* window, or already out of it.
LateInstants == {CLEANUP_INTERVAL + 1, TIME_WINDOW + 1}

\* A request reaches a worker whose limiter last swept at 0.
InitGate ==
    /\ FetchIdle
    /\ now \in LateInstants
    /\ lastCleanup = 0
    /\ requestCounts \in RateStates
    /\ accepted = [ip \in Identities |->
                      IF ip \in DOMAIN requestCounts THEN requestCounts[ip] ELSE << >>]
    /\ limitedAt = [ip \in Identities |-> {}]
    /\ lastCall = NoCall
    /\ unswept = requestCounts
    /\ store = << >>
    /\ request \in HttpRequests \ ParamRequests
    /\ response = NoResponse
    /\ trace = NoTrace
    /\ genOk = << >>
    /\ served = << >>
    /\ faulted = FALSE
    /\ env \in [API_KEY : {JS_UNDEFINED, API_KEY_VALUE}, R2_BUCKET : {TRUE},
               TMDB_API_KEY : {TMDB_KEY}]

SpecGate == InitGate /\ [][NextHttp]_vars

-----------------------------------------------------------------------------
(* The awaits of one request: its outbound fetches and their abort timers  *)

Pending == [fetch |-> "pending", body |-> "none"]

\* What an upstream can answer a fetch with: a response, ok or not, whose
\* body is then read, or a network error.
Answers ==
    {r \in [fetch : {"ok", "not-ok", "rejects"}, body : BodyOutcomes] : Settled(r.fetch, r.body)}

Aborted == [fetch |-> "aborts", body |-> "results"]

\* The abort timer whose signal a fetch is given: search_tmdb passes its
\* controller's signal to both of its fetches, fetchWithTimeout to the one it
\* makes; _searchViaApi and _searchViaScraping call fetch without a signal.
signalOf(name) ==
    CASE name \in {"movie", "tv"} -> "tmdb"
      [] name = "content" -> "content"
      [] OTHER -> "none"

\* What the handler of the request awaits first: the backend it calls.
awaited(params, e) == handleQueryRequest(params, << >>, e, AllGood, 0).trace

\* search_tmdb returns before its fetches without a key or a query.
tmdbFetches(query, e) == truthy(e.TMDB_API_KEY) /\ trim(query) /= << >>

\* The outcome of a fetch as the handler sees it; one it never made, or left
\* behind unsettled, is of no consequence.
seen(fs, name) ==
    IF name \in DOMAIN fs /\ fs[name] /= Pending THEN fs[name]
    ELSE [fetch |-> "ok", body |-> "results"]

searchOutcome(fs) ==
    [api |-> seen(fs, "api").fetch, apiBody |-> seen(fs, "api").body,
     scrape |-> seen(fs, "scrape").fetch, scrapeBody |-> seen(fs, "scrape").body,
     movie |-> seen(fs, "movie").fetch, movieBody |-> seen(fs, "movie").body,
     tv |-> seen(fs, "tv").fetch, tvBody |-> seen(fs, "tv").body]

\* What the generator makes of its content fetch.
generated(fs) ==
    IF seen(fs, "content") = [fetch |-> "ok", body |-> "results"] THEN "ok1" ELSE "error"

\* The requests that make the handler fetch: searches by query, with and
\* without a source, and lookups by URL and by source and sid.
FetchParams ==
    [source : {JS_NULL, <<"imdb">>, <<"tmdb">>}, query : {JS_NULL, Q_avengers, Q_cjk, <<" ">>},
     url : {JS_NULL, U_tmdb}, tmdb_id : {JS_NULL}, sid : {JS_NULL, <<"movie", "/", "550">>}]

InitFetch ==
    /\ RateIdle
    /\ store = << >>
    /\ request \in {[kind |-> "query", params |-> params] : params \in FetchParams}
    /\ response = NoResponse
    /\ trace = NoTrace
    /\ genOk = << >>
    /\ served = << >>
    /\ faulted = FALSE
    /\ env \in [API_KEY : {JS_UNDEFINED}, R2_BUCKET : {FALSE},
               TMDB_API_KEY : {JS_UNDEFINED, TMDB_KEY}]
    /\ pc = "start"
    /\ fetches = << >>
    /\ timers = << >>
    /\ inflight = << >>
    /\ puts = << >>

\* The handler runs up to its first await: search_imdb calls _searchViaApi,
\* which fetches; search_tmdb sets its timer and starts both fetches; a
\* generator calls fetchWithTimeout, which sets its timer and fetches; any
\* other request is answered without a fetch.
Begin ==
    /\ pc = "start"
    /\ \E a \in {awaited(request.params, env)} :
          IF a.generator = "search_imdb"
          THEN /\ pc' = "api"
               /\ fetches' = [n \in {"api"} |-> Pending]
               /\ timers' = << >>
          ELSE IF a.generator = "search_tmdb" /\ tmdbFetches(request.params.query, env)
          THEN /\ pc' = "tmdb"
               /\ fetches' = [n \in {"movie", "tv"} |-> Pending]
               /\ timers' = [n \in {"tmdb"} |-> "armed"]
          ELSE IF a.generated
          THEN /\ pc' = "content"
               /\ fetches' = [n \in {"content"} |-> Pending]
               /\ timers' = [n \in {"content"} |-> "armed"]
          ELSE /\ pc' = "respond"
               /\ UNCHANGED <<fetches, timers>>
    /\ UNCHANGED <<rateVars, concVars, cacheVars, reqVars>>

\* The suggestion API answers: _searchViaApi returns, and search_imdb, left
\* without results, calls _searchViaScraping, which fetches.
ApiSettles ==
    /\ pc = "api"
    /\ \E r \in Answers :
          IF found(searchViaApi(searchOutcome([fetches EXCEPT !["api"] = r])))
          THEN /\ fetches' = [fetches EXCEPT !["api"] = r]
               /\ pc' = "respond"
          ELSE /\ fetches' = [n \in {"api", "scrape"} |-> IF n = "api" THEN r ELSE Pending]
               /\ pc' = "scrape"
    /\ UNCHANGED <<timers, rateVars, concVars, cacheVars, reqVars>>

\* The result page answers: _searchViaScraping returns or throws.
ScrapeSettles ==
    /\ pc = "scrape"
    /\ \E r \in Answers : fetches' = [fetches EXCEPT !["scrape"] = r]
    /\ pc' = "respond"
    /\ UNCHANGED <<timers, rateVars, concVars, cacheVars, reqVars>>

\* One of the two TMDB searches answers. Promise.all settles when it rejects
\* or when both have resolved, and the finally block clears the timer.
TmdbSettles(name) ==
    /\ pc = "tmdb"
    /\ fetches[name] = Pending
    /\ \E r \in Answers :
          /\ fetches' = [fetches EXCEPT ![name] = r]
          /\ IF r.fetch = "rejects" \/ \A n \in {"movie", "tv"} \ {name} : fetches[n] /= Pending
             THEN pc' = "respond" /\ timers' = [timers EXCEPT !["tmdb"] = "cleared"]
             ELSE UNCHANGED <<pc, timers>>
    /\ UNCHANGED <<rateVars, concVars, cacheVars, reqVars>>

\* The content fetch answers: fetchWithTimeout clears its timer and returns
\* or throws.
ContentSettles ==
    /\ pc = "content"
    /\ \E r \in Answers : fetches' = [fetches EXCEPT !["content"] = r]
    /\ timers' = [timers EXCEPT !["content"] = "cleared"]
    /\ pc' = "respond"
    /\ UNCHANGED <<rateVars, concVars, cacheVars, reqVars>>

\* A timer fires: controller.abort() rejects the pending fetches that were
\* given its signal, and the await throws an AbortError.
TimerFires(t) ==
    /\ timers[t] = "armed"
    /\ timers' = [timers EXCEPT ![t] = "fired"]
    /\ fetches' = [n \in DOMAIN fetches |->
                      IF signalOf(n) = t /\ fetches[n] = Pending THEN Aborted ELSE fetches[n]]
    /\ pc' = "respond"
    /\ UNCHANGED <<rateVars, concVars, cacheVars, reqVars>>

\* The handler has what it awaited and returns its response.
Respond ==
    /\ pc = "respond"
    /\ \E r \in {handleQueryRequest(request.params, store, env,
                                      [get |-> "ok", gen |-> generated(fetches), put |-> "ok",
                                       search |-> searchOutcome(fetches)], now)} :
          /\ response' = r.response
          /\ trace' = r.trace
          /\ store' = r.store
    /\ pc' = "done"
    /\ UNCHANGED <<request, env, genOk, served, faulted, rateVars, concVars, fetches, timers>>

NextFetch ==
    \/ Begin
    \/ ApiSettles
    \/ ScrapeSettles
    \/ \E name \in {"movie", "tv"} : TmdbSettles(name)
    \/ ContentSettles
    \/ \E t \in DOMAIN timers : TimerFires(t)
    \/ Respond

\* The steps Begin and Respond, told by the handler's position: each is
\* enabled whenever the handler stands before it.
Begins == pc = "start" /\ pc' \in {"api", "tmdb", "content", "respond"}
Responds == pc = "respond" /\ pc' = "done"

\* The handler runs whenever it can and a timer that is set fires unless it
\* is cleared first; nothing makes an upstream answer.
SpecFetch ==
    /\ InitFetch /\ [][NextFetch]_vars
    /\ WF_pc(Begins) /\ WF_pc(Responds)
    /\ WF_vars(\E t \in DOMAIN timers : TimerFires(t))

-----------------------------------------------------------------------------
(* Requests served at once, interleaved at their awaits                    *)

\* The requests in flight.
RequestIds == DOMAIN inflight

\* A request that has reached the worker and not run yet.
arrived(ip, url_) ==
    [pc |-> "arrived", ip |-> ip, url |-> url_, fresh |-> UndefinedObject,
     returned |-> UndefinedObject]

\* handleUrlRequest up to the call of _withCache: the key, the generator and
\* its argument.
lookupOf(url_) == handleUrlRequest(url_, << >>, TRUE, AllGood).trace

\* Two requests of one identity, for the same resource or for two, and a
\* third of either identity.
InFlight ==
    {<<arrived("1.1.1.1", U_tmdb), arrived("1.1.1.1", url_), arrived(ip, U_imdb)>> :
        url_ \in {U_tmdb, U_imdb}, ip \in Identities}

\* The requests have arrived; their identity is one call short of its limit,
\* or not seen before.
InitConc ==
    /\ now = 0
    /\ lastCleanup = 0
    /\ requestCounts \in {<< >>, [ip \in {"1.1.1.1"} |-> stamps(MAX_REQUESTS - 1)]}
    /\ accepted = [ip \in Identities |->
                      IF ip \in DOMAIN requestCounts THEN requestCounts[ip] ELSE << >>]
    /\ limitedAt = [ip \in Identities |-> {}]
    /\ lastCall = NoCall
    /\ unswept = requestCounts
    /\ ServerIdle
    /\ env = [API_KEY |-> JS_UNDEFINED, R2_BUCKET |-> TRUE, TMDB_API_KEY |-> TMDB_KEY]
    /\ pc = "idle"
    /\ fetches = << >>
    /\ timers = << >>
    /\ inflight \in InFlight
    /\ puts = << >>

\* handleRequest runs from its entry to its first suspension: validateRequest
\* calls isRateLimited, whose body has no await, so the check and the record
\* are one step.
Validate(i) ==
    /\ inflight[i].pc = "arrived"
    /\ \E r \in {isRateLimited(requestCounts, lastCleanup, inflight[i].ip, now)},
          ip \in {inflight[i].ip} :
          /\ requestCounts' = r.requestCounts
          /\ lastCleanup' = r.lastCleanup
          /\ accepted' = IF r.limited THEN accepted
                         ELSE [accepted EXCEPT ![ip] = Append(@, now)]
          /\ limitedAt' = IF r.limited THEN [limitedAt EXCEPT ![ip] = @ \cup {now}]
                          ELSE limitedAt
          /\ lastCall' = [ip |-> ip, at |-> now, limited |-> r.limited,
                          before |-> InWindow(accepted[ip], now)]
          /\ unswept' = isRateLimited_NeverSweeps(unswept, lastCleanup, ip, now).requestCounts
          /\ inflight' = [inflight EXCEPT ![i].pc = IF r.limited THEN "limited" ELSE "get"]
    /\ UNCHANGED <<now, cacheVars, reqVars, fetchVars, puts>>

\* await env.R2_BUCKET.get(resourceId) returns: a hit returns the stored
\* record, a miss goes on to the generator.
CacheGet(i) ==
    /\ inflight[i].pc = "get"
    /\ \E l \in {lookupOf(inflight[i].url)} :
          inflight' = IF cacheHit(store, l.resourceId, env.R2_BUCKET, AllGood)
                      THEN [inflight EXCEPT ![i].pc = "done",
                                            ![i].returned = JSON_parse(store[l.resourceId])]
                      ELSE [inflight EXCEPT ![i].pc = "generate"]
    /\ UNCHANGED <<rateVars, cacheVars, reqVars, fetchVars, puts>>

\* await fetchFunction() returns the record of this request's generation.
Generate(i) ==
    /\ inflight[i].pc = "generate"
    /\ \E l \in {lookupOf(inflight[i].url)}, outcome \in {"ok1", "ok2", "error"} :
        \E freshData \in {generate(l.generator, l.genSid, outcome)} :
          /\ inflight' = IF shouldStore(freshData, env.R2_BUCKET)
                         THEN [inflight EXCEPT ![i].pc = "put", ![i].fresh = freshData]
                         ELSE [inflight EXCEPT ![i].pc = "done", ![i].fresh = freshData,
                                               ![i].returned = freshData]
          /\ genOk' = IF truthy(Get(freshData, "success"))
                      THEN bucketPut(genOk, l.resourceId, count(genOk, l.resourceId) + 1)
                      ELSE genOk
    /\ UNCHANGED <<rateVars, env, store, served, faulted, reqVars, fetchVars, puts>>

\* await env.R2_BUCKET.put(resourceId, text) returns, and _withCache returns
\* freshData.
CachePut(i) ==
    /\ inflight[i].pc = "put"
    /\ \E l \in {lookupOf(inflight[i].url)} :
          /\ store' = bucketPut(store, l.resourceId,
                                JSON_stringify(lightweight(inflight[i].fresh)))
          /\ puts' = Append(puts, [key |-> l.resourceId, by |-> i])
    /\ inflight' = [inflight EXCEPT ![i].pc = "done", ![i].returned = inflight[i].fresh]
    /\ UNCHANGED <<rateVars, env, genOk, served, faulted, reqVars, fetchVars>>

\* The clock advances while requests are suspended.
Elapse ==
    /\ \E t \in Instants : t > now /\ now' = t
    /\ UNCHANGED <<requestCounts, lastCleanup, accepted, limitedAt, lastCall, unswept>>
    /\ UNCHANGED <<cacheVars, reqVars, fetchVars, concVars>>

NextConc ==
    \/ \E i \in RequestIds : Validate(i)
    \/ \E i \in RequestIds : CacheGet(i)
    \/ \E i \in RequestIds : Generate(i)
    \/ \E i \in RequestIds : CachePut(i)
    \/ Elapse

SpecConc == InitConc /\ [][NextConc]_vars

-----------------------------------------------------------------------------
(* The generators and their upstream fetches                               *)
(* douban.js lines 90-497, part_003 lines 144-362, part_005 lines 137-262, *)
(* part_002 lines 110-190                                                  *)

\* What one fetchWithTimeout call comes to: a response with a status and a
\* body, or an exception (AbortError when the timeout fired, TypeError when
\* the network failed).
Responded(status, body) == [name |-> "response", status |-> status, body |-> body]
Thrown(name) == [name |-> name, status |-> 0, body |-> "none"]

\* response.ok
ok(r) == r.name = "response" /\ r.status >= 200 /\ r.status <= 299

isClientError_Never(r) == FALSE

\* response?.status >= 400 && response?.status < 500
isClientError(r) == r.status >= 400 /\ r.status < 500

\* The number of rounds of the helpers' for loop.
DoubanAttempts == 3

\* for (let i = 0; i < 3; i++) { ... } of the three Douban helpers, from
\* round i on, upstream[i + 1] being what the fetch of round i comes to. The
\* rating helper also continues when the body has no resource in it.
RECURSIVE retryLoop(_, _, _)
retryLoop(upstream, i, needsResource) ==
    IF i >= DoubanAttempts
    THEN [tried |-> i, parsed |-> FALSE]
    ELSE LET r == upstream[i + 1]
             stop == [tried |-> i + 1, parsed |-> FALSE]
         IN  IF r.name /= "response"
             THEN IF r.name = "AbortError" /\ i < 2
                  THEN retryLoop(upstream, i + 1, needsResource)
                  ELSE stop
             ELSE IF ~ok(r)
                  THEN IF isClientError(r)
                       THEN stop
                       ELSE retryLoop(upstream, i + 1, needsResource)
                  ELSE IF needsResource /\ r.body = "no-resource"
                       THEN retryLoop(upstream, i + 1, needsResource)
                       ELSE [tried |-> i + 1, parsed |-> TRUE]

Celebrities == [director |-> <<"director">>, writer |-> <<"writer">>, cast |-> <<"cast">>]
Awards == <<"award">>
ImdbRating == [average |-> <<"8.8">>, votes |-> <<"2000000">>,
               formatted |-> <<"8.8", " / 10 from ", "2000000", " users">>]
EmptyObject == << >>
EmptyArray == << >>

\* fetchCelebritiesInfo(baseLink, headers)
fetchCelebritiesInfo(upstream) ==
    LET loop == retryLoop(upstream, 0, FALSE)
    IN  [tried |-> loop.tried, threw |-> FALSE,
         value |-> IF loop.parsed THEN Celebrities ELSE EmptyObject]

\* fetchAwardsInfo(baseLink, headers)
fetchAwardsInfo(upstream) ==
    LET loop == retryLoop(upstream, 0, FALSE)
    IN  [tried |-> loop.tried, threw |-> FALSE,
         value |-> IF loop.parsed THEN Awards ELSE EmptyArray]

\* fetchImdbRating(imdbId, headers)
fetchImdbRating(upstream) ==
    LET loop == retryLoop(upstream, 0, TRUE)
    IN  [tried |-> loop.tried, threw |-> FALSE,
         value |-> IF loop.parsed THEN ImdbRating ELSE JS_NULL]

helper(name, upstream) ==
    CASE name = "fetchCelebritiesInfo" -> fetchCelebritiesInfo(upstream)
      [] name = "fetchAwardsInfo"      -> fetchAwardsInfo(upstream)
      [] name = "fetchImdbRating"      -> fetchImdbRating(upstream)

NONE_EXIST_ERROR == <<"The corresponding resource does not exist.">>
ANTI_BOT_ERROR == <<"Douban blocked request (captcha/anti-bot). Provide valid cookie or try later.">>

\* getStaticMediaDataFromOurBits(site, sid): the archive has the entry, has
\* none (null), or the lookup fails.
ArchiveOutcomes == {"hit", "miss", "throws"}
Archived == [title |-> <<"archived">>]

\* The statuses on which gen_douban asks the mobile domain.
retryStatuses == {204, 403, 521}

\* gen_douban(sid, env): up.archive is the archive's answer, up.page and
\* up.mobile what the fetches of the page come to, up.imdb_id whether the page
\* names an IMDb id, up.rating, up.celebrities and up.awards what the rounds of
\* the three helpers come to.
gen_douban(sid, e, up) ==
    LET data == [site |-> <<"douban">>, sid |-> sid]
        archival == Get(e, "ENABLED_CACHE") = <<"false">>
        response_ == IF up.page.name = "response" /\ up.page.status \in retryStatuses
                        /\ ok(up.mobile)
                     THEN up.mobile ELSE up.page
        imdbInfo == IF up.imdb_id
                    THEN LET rating == fetchImdbRating(up.rating).value
                         IN  IF truthy(rating) THEN rating ELSE EmptyObject
                    ELSE EmptyObject
        scraped == spread(spread(data,
                       IF up.imdb_id THEN [imdb_id |-> <<"tt0111161">>] ELSE << >>),
                       [chinese_title |-> <<"title">>])
        full == spread(spread(scraped, fetchCelebritiesInfo(up.celebrities).value),
                       [awards |-> fetchAwardsInfo(up.awards).value])
        rated == IF truthy(Get(imdbInfo, "average"))
                 THEN spread(full, [imdb_rating_average |-> imdbInfo.average,
                                    imdb_votes |-> imdbInfo.votes,
                                    imdb_rating |-> imdbInfo.formatted])
                 ELSE full
    IN  IF ~truthy(sid)
        THEN spread(data, [error |-> <<"Invalid Douban id">>])
        ELSE IF archival /\ up.archive = "throws"
        THEN spread(data, [error |-> <<"archive lookup failed">>])
        ELSE IF archival /\ up.archive = "hit"
        THEN spread(spread(data, Archived), [success |-> JS_TRUE])
        ELSE IF up.page.name /= "response"
        THEN spread(data, [error |-> <<up.page.name>>])
        ELSE IF response_.status = 404
        THEN spread(data, [error |-> NONE_EXIST_ERROR])
        ELSE IF ~ok(response_)
        THEN spread(data, [error |-> <<"Douban request failed">>])
        ELSE IF response_.body = "not-found"
        THEN spread(data, [error |-> NONE_EXIST_ERROR])
        ELSE IF response_.body = "anti-bot"
        THEN spread(data, [error |-> ANTI_BOT_ERROR])
        ELSE spread(rated, [success |-> JS_TRUE])

\* gen_imdb(sid, env): up.page, up.releaseinfo and up.parentalguide are what
\* the three fetches of Promise.allSettled come to. The live scrape is the
\* else branch of the archival test, so with archival mode on and no entry in
\* the archive the function ends without a return statement.
gen_imdb(sid, e, up) ==
    LET data == [site |-> <<"imdb">>, sid |-> sid]
        archival == Get(e, "ENABLED_CACHE") = <<"false">>
        released == IF ok(up.releaseinfo) THEN [release_date |-> <<"1994">>] ELSE << >>
        rated == IF ok(up.parentalguide) THEN [mpaa |-> <<"R">>] ELSE << >>
    IN  IF ~truthy(sid)
        THEN spread(data, [error |-> <<"Invalid IMDB id">>])
        ELSE IF archival
        THEN CASE up.archive = "hit" -> spread(spread(data, Archived), [success |-> JS_TRUE])
               [] up.archive = "miss" -> UndefinedObject
               [] up.archive = "throws" -> spread(data, [error |-> <<"archive lookup failed">>])
        ELSE IF up.page.name /= "response"
        THEN spread(data, [error |-> <<up.page.name>>])
        ELSE IF up.page.status = 404
        THEN spread(data, [error |-> NONE_EXIST_ERROR])
        ELSE IF ~ok(up.page)
        THEN spread(data, [error |-> <<"IMDb page request failed">>])
        ELSE spread(spread(spread(spread(data, [name |-> <<"title">>]), released), rated),
                    [success |-> JS_TRUE])

\* gen_tmdb(sid, env): up.page is what the fetch of the item comes to,
\* up.overview whether the item has an overview, up.translations what the
\* fetch of the translations comes to. That fetch is awaited inside the try
\* block whose catch answers "TMDB API response parsing failed".
gen_tmdb(sid, e, up) ==
    LET base == [site |-> <<"tmdb">>, sid |-> sid]
        translated == ok(up.translations) /\ up.translations.body = "json"
        overview == IF up.overview THEN <<"overview">>
                    ELSE IF translated THEN <<"translated">> ELSE << >>
    IN  IF ~truthy(Get(e, "TMDB_API_KEY"))
        THEN spread(base, [error |-> <<"TMDB API key not configured">>])
        ELSE IF ~truthy(sid)
        THEN spread(base, [error |-> <<"Invalid TMDB ID format">>])
        ELSE IF up.page.name /= "response"
        THEN spread(base, [error |-> <<"TMDB API fetch error: ", up.page.name>>])
        ELSE IF up.page.status = 404
        THEN spread(base, [error |-> NONE_EXIST_ERROR])
        ELSE IF ~ok(up.page)
        THEN spread(base, [error |-> <<"TMDB API request failed">>])
        ELSE IF up.page.body /= "json"
        THEN spread(base, [error |-> <<"TMDB API response parsing failed">>])
        ELSE IF ~up.overview /\ up.translations.name /= "response"
        THEN spread(base, [error |-> <<"TMDB API response parsing failed">>])
        ELSE IF ~up.overview /\ ok(up.translations) /\ up.translations.body /= "json"
        THEN spread(base, [error |-> <<"TMDB API response parsing failed">>])
        ELSE spread(base, [title |-> <<"title">>, overview |-> overview,
                           success |-> JS_TRUE])

\* gen_bangumi(sid): up.page is what the fetch of the subject comes to,
\* up.characters what the fetch of its characters comes to.
gen_bangumi(sid, up) ==
    LET data == [site |-> <<"bangumi">>, sid |-> sid]
        characters == IF ok(up.characters) /\ up.characters.body = "json"
                      THEN <<"character">> ELSE EmptyArray
    IN  IF ~truthy(sid)
        THEN spread(data, [error |-> <<"Invalid Bangumi subject id">>])
        ELSE IF up.page.name /= "response"
        THEN spread(data, [error |-> <<up.page.name>>])
        ELSE IF up.page.status = 404
        THEN spread(data, [error |-> <<"Subject not found on Bangumi">>])
        ELSE IF ~ok(up.page)
        THEN spread(data, [error |-> <<"Bangumi subject request failed">>])
        ELSE IF up.page.body /= "json"
        THEN spread(data, [error |-> <<"Failed to parse Bangumi subject response">>])
        ELSE spread(data, [name |-> <<"title">>, characters |-> characters,
                           success |-> JS_TRUE])

\* One call of a generator or of a Douban helper, with what its fetches
\* come to.
HelperNames == {"fetchCelebritiesInfo", "fetchAwardsInfo", "fetchImdbRating"}
HelperAttempts ==
    {Responded(200, "data"), Responded(304, "none"), Responded(404, "none"),
     Responded(503, "none"), Thrown("AbortError"), Thrown("TypeError")}
attemptsOf(name) ==
    IF name = "fetchImdbRating"
    THEN HelperAttempts \cup {Responded(200, "no-resource")}
    ELSE HelperAttempts
HelperCalls ==
    {[kind |-> "helper", name |-> name, upstream |-> upstream] :
        name \in HelperNames, upstream \in [1..DoubanAttempts -> HelperAttempts]}
    \cup {[kind |-> "helper", name |-> "fetchImdbRating", upstream |-> upstream] :
        upstream \in [1..DoubanAttempts -> attemptsOf("fetchImdbRating")]}

\* What the three rounds of a helper come to inside gen_douban: data at once,
\* three timeouts, a 404, and data after two 503.
HelperRuns ==
    {<<Responded(200, "data"), Responded(200, "data"), Responded(200, "data")>>,
     <<Thrown("AbortError"), Thrown("AbortError"), Thrown("AbortError")>>,
     <<Responded(404, "none"), Responded(200, "data"), Responded(200, "data")>>,
     <<Responded(503, "none"), Responded(503, "none"), Responded(200, "data")>>}
GenSids == {<<"1292052">>, << >>}
ArchiveEnvs == {[ENABLED_CACHE |-> <<"false">>, TMDB_API_KEY |-> TMDB_KEY],
                [ENABLED_CACHE |-> JS_UNDEFINED, TMDB_API_KEY |-> TMDB_KEY]}
Failures == {Thrown("AbortError"), Thrown("TypeError")}
DoubanPages ==
    {Responded(200, "page"), Responded(200, "not-found"), Responded(200, "anti-bot"),
     Responded(403, "none"), Responded(404, "none"), Responded(503, "none")} \cup Failures
DoubanUpstreams ==
    [archive : ArchiveOutcomes, page : DoubanPages,
     mobile : {Responded(200, "page"), Responded(403, "none"), Thrown("AbortError")},
     imdb_id : BOOLEAN, rating : HelperRuns, celebrities : HelperRuns,
     awards : HelperRuns]
ImdbFetches ==
    {Responded(200, "page"), Responded(404, "none"), Responded(503, "none")} \cup Failures
ImdbUpstreams ==
    [archive : ArchiveOutcomes, page : ImdbFetches, releaseinfo : ImdbFetches,
     parentalguide : ImdbFetches]
JsonFetches ==
    {Responded(200, "json"), Responded(200, "invalid"), Responded(404, "none"),
     Responded(503, "none")} \cup Failures
TmdbUpstreams == [page : JsonFetches, overview : BOOLEAN, translations : JsonFetches]
BangumiUpstreams == [page : JsonFetches, characters : JsonFetches]
upstreamsOf(generator) ==
    CASE generator = "gen_douban"  -> DoubanUpstreams
      [] generator = "gen_imdb"    -> ImdbUpstreams
      [] generator = "gen_tmdb"    -> TmdbUpstreams
      [] generator = "gen_bangumi" -> BangumiUpstreams
envsOf(generator) ==
    CASE generator \in {"gen_douban", "gen_imdb"} -> ArchiveEnvs
      [] generator = "gen_tmdb" ->
            {[ENABLED_CACHE |-> JS_UNDEFINED, TMDB_API_KEY |-> k] :
                k \in {JS_UNDEFINED, TMDB_KEY}}
      [] generator = "gen_bangumi" ->
            {[ENABLED_CACHE |-> JS_UNDEFINED, TMDB_API_KEY |-> TMDB_KEY]}
Scrapers == {"gen_douban", "gen_imdb", "gen_tmdb", "gen_bangumi"}

\* generator(sid, env) with the upstream answering as up says.
scrape(generator, sid, e, up) ==
    CASE generator = "gen_douban"  -> gen_douban(sid, e, up)
      [] generator = "gen_imdb"    -> gen_imdb(sid, e, up)
      [] generator = "gen_tmdb"    -> gen_tmdb(sid, e, up)
      [] generator = "gen_bangumi" -> gen_bangumi(sid, up)

\* The rows (.findResult) of an IMDb result page: the href of the row's link,
\* the text of the link, and the text of the row after the link.
IMDB_BASE_URL == <<"https://www.imdb.com">>
IMDB_MAX_RESULTS == 10
TitleRow == [href |-> <<"/title/", "tt0137523", "/">>, title |-> <<"Fight Club">>,
             rest |-> <<" ", "(", "1999", ")", " ">>]
UndatedRow == [href |-> <<"/title/", "tt0111161", "/">>, title |-> <<"Untitled">>,
               rest |-> <<" ", "(", "TV Series", ")">>]
NameRow == [href |-> <<"/name/", "nm0000093", "/">>, title |-> <<"Brad Pitt">>,
            rest |-> <<" ", "(", "Actor", ")">>]
StubRow == [href |-> <<"/title/", "tt", "/">>, title |-> <<"Stub">>, rest |-> << >>]
RowKinds == {TitleRow, UndatedRow, NameRow, StubRow}
TtTokens == {"tt0137523", "tt0111161"}
YearTokens == {"1999"}
MaxRows == 3
LongPages == 9..12

\* linkHref.match(/\/title\/(tt\d+)/): the identifier, or null.
idMatch(href) ==
    IF \E k \in 1..(Len(href) - 1) : href[k] = "/title/" /\ href[k + 1] \in TtTokens
    THEN <<href[(CHOOSE k \in 1..(Len(href) - 1) :
                    href[k] = "/title/" /\ href[k + 1] \in TtTokens) + 1]>>
    ELSE JS_NULL

\* fullText.match(/\((\d{4})\)/): the year, or ''.
yearMatch(fullText) ==
    IF \E k \in 1..(Len(fullText) - 2) :
          fullText[k] = "(" /\ fullText[k + 1] \in YearTokens /\ fullText[k + 2] = ")"
    THEN <<fullText[(CHOOSE k \in 1..(Len(fullText) - 2) :
                        fullText[k] = "(" /\ fullText[k + 1] \in YearTokens
                        /\ fullText[k + 2] = ")") + 1]>>
    ELSE << >>

\* fullText.replace(title, ''): the text without the first occurrence of title.
replaceFirst(fullText, title) ==
    IF \E k \in 0..(Len(fullText) - Len(title)) :
          SubSeq(fullText, k + 1, k + Len(title)) = title
    THEN LET k == CHOOSE j \in 0..(Len(fullText) - Len(title)) :
                     /\ SubSeq(fullText, j + 1, j + Len(title)) = title
                     /\ \A i \in 0..(j - 1) :
                           SubSeq(fullText, i + 1, i + Len(title)) /= title
         IN  SubSeq(fullText, 1, k) \o SubSeq(fullText, k + Len(title) + 1, Len(fullText))
    ELSE fullText

\* The body of $('.findResult').each((i, el) => ...) of _searchViaScraping for
\* the rows from the i-th on (i counted from 0): rows that link to no title
\* are passed over, and the walk ends at row IMDB_MAX_RESULTS.
RECURSIVE findResults(_, _)
findResults(rows, i) ==
    IF i >= Len(rows) \/ i >= IMDB_MAX_RESULTS THEN << >>
    ELSE LET row == rows[i + 1]
             fullText == <<" ">> \o row.title \o row.rest
         IN  IF idMatch(row.href) = JS_NULL
             THEN findResults(rows, i + 1)
             ELSE <<[year |-> yearMatch(fullText),
                     subtype |-> <<"feature">>,
                     title |-> trim(row.title),
                     subtitle |-> trim(replaceFirst(fullText, trim(row.title))),
                     link |-> IMDB_BASE_URL \o row.href]>>
                  \o findResults(rows, i + 1)

\* pick(item, ...keys)
RECURSIVE pick(_, _)
pick(item, keys) ==
    IF keys = << >> THEN << >>
    ELSE IF Get(item, Head(keys)) \notin {JS_UNDEFINED, JS_NULL}
            /\ trim(Get(item, Head(keys))) /= << >>
    THEN item[Head(keys)]
    ELSE pick(item, Tail(keys))

\* buildLink(item, 'imdb') of processSearchResults
buildLink(item) ==
    IF truthy(Get(item, "link")) THEN item.link
    ELSE IF truthy(Get(item, "url")) THEN item.url
    ELSE IF pick(item, <<"id", "imdb_id", "douban_id", "tt">>) = << >> THEN << >>
    ELSE <<"https://www.imdb.com/title/">>
         \o pick(item, <<"id", "imdb_id", "douban_id", "tt">>) \o <<"/">>

\* case 'imdb' of processSearchResults
normalizeImdb(item) ==
    [year |-> pick(item, <<"y">>), subtype |-> pick(item, <<"qid">>),
     title |-> pick(item, <<"l">>), subtitle |-> pick(item, <<"s">>),
     link |-> IF truthy(Get(item, "id"))
              THEN <<"https://www.imdb.com/title/">> \o item.id \o <<"/">>
              ELSE buildLink(item),
     id |-> pick(item, <<"id">>)]

\* processSearchResults(results, 'imdb').data
processImdbResults(results) ==
    [k \in 1..(IF Len(results) < 10 THEN Len(results) ELSE 10) |-> normalizeImdb(results[k])]

\* What _searchViaScraping(query) returns for a result page with these rows.
scrapedSummaries(rows) == processImdbResults(findResults(rows, 0))

\* The result pages: every page of up to MaxRows rows, and long pages of title
\* rows with a row of another kind at the front.
ResultPages ==
    UNION {[1..n -> RowKinds] : n \in 0..MaxRows}
    \cup {[k \in 1..n |-> IF k = 1 THEN first ELSE TitleRow] :
             n \in LongPages, first \in RowKinds}
ScrapeCalls == {[kind |-> "scrape", rows |-> rows] : rows \in ResultPages}

\* A generator, a Douban helper or the scrape of a result page is about to be
\* called.
InitGen ==
    /\ FetchIdle
    /\ RateIdle
    /\ store = << >>
    /\ response = NoResponse
    /\ trace = NoTrace
    /\ genOk = << >>
    /\ served = << >>
    /\ faulted = FALSE
    /\ \/ /\ request \in HelperCalls \cup ScrapeCalls
          /\ env = [ENABLED_CACHE |-> JS_UNDEFINED, TMDB_API_KEY |-> TMDB_KEY]
       \/ \E generator \in Scrapers :
             /\ env \in envsOf(generator)
             /\ request \in {[kind |-> "gen", generator |-> generator, sid |-> sid,
                              up |-> up] :
                                 sid \in GenSids, up \in upstreamsOf(generator)}

\* The helper runs to its return.
CallHelper ==
    /\ request.kind = "helper"
    /\ response = NoResponse
    /\ response' = [kind |-> "returned", value |-> helper(request.name, request.upstream).value]
    /\ trace' = [route |-> "helper",
                 tried |-> helper(request.name, request.upstream).tried,
                 threw |-> helper(request.name, request.upstream).threw]
    /\ UNCHANGED <<rateVars, cacheVars, fetchVars, concVars, request>>

\* The generator runs to its return.
CallGenerator ==
    /\ request.kind = "gen"
    /\ response = NoResponse
    /\ response' = [kind |-> "returned",
                    value |-> scrape(request.generator, request.sid, env, request.up)]
    /\ trace' = [route |-> "generator"]
    /\ UNCHANGED <<rateVars, cacheVars, fetchVars, concVars, request>>

\* _searchViaScraping reads the result page and returns its summaries.
CallScrape ==
    /\ request.kind = "scrape"
    /\ response = NoResponse
    /\ response' = [kind |-> "returned", value |-> scrapedSummaries(request.rows)]
    /\ trace' = [route |-> "scrape", results |-> findResults(request.rows, 0)]
    /\ UNCHANGED <<rateVars, cacheVars, fetchVars, concVars, request>>

NextGen ==
    \/ CallHelper
    \/ CallGenerator
    \/ CallScrape

SpecGen == InitGen /\ [][NextGen]_vars

-----------------------------------------------------------------------------
(* Properties of the rate limiter                                          *)

\* The instants at which a window (t - TIME_WINDOW, t] is inspected: every
\* clock value of the model and the last instant of the window each opens.
WindowEnds == Instants \cup {t + TIME_WINDOW - 1 : t \in Instants}

\* C1: for every identity and every instant t, at most MAX_REQUESTS of the
\* identity's accepted calls have their timestamp in (t - TIME_WINDOW, t].
C1_AtMostMaxRequestsPerWindow ==
    \A ip \in Identities : \A t \in WindowEnds :
        InWindow(accepted[ip], t) <= MAX_REQUESTS

\* A full window: MAX_REQUESTS accepted calls in the current window, a further
\* call rejected at this instant, and an older accepted call outside the window.
C1_Witness ==
    \E ip \in Identities :
        /\ InWindow(accepted[ip], now) = MAX_REQUESTS
        /\ Len(accepted[ip]) > MAX_REQUESTS
        /\ now \in limitedAt[ip]

\* C2: a call returns false while fewer than MAX_REQUESTS accepted calls of
\* its identity lie in the window ending at the call (the first 30), true
\* when MAX_REQUESTS do (the 31st), and so false again once the clock has
\* passed the window of every recorded timestamp.
C2_LimitedIffWindowFull ==
    lastCall.ip /= "none" =>
        (lastCall.limited <=> lastCall.before >= MAX_REQUESTS)

\* An identity that was limited is admitted again after its window passed.
C2_Witness ==
    /\ lastCall.ip /= "none"
    /\ ~lastCall.limited
    /\ lastCall.before = 0
    /\ Len(accepted[lastCall.ip]) = MAX_REQUESTS + 1
    /\ \E t \in limitedAt[lastCall.ip] : t < lastCall.at

-----------------------------------------------------------------------------
(* Properties of the cache-aside executor                                  *)

Served == response /= NoResponse

\* C3: a cache hit returns the stored record without invoking the generator;
\* so, while no bucket operation has failed, dispatches of one resource make
\* at most one successful generation in total and all answer the same
\* payload (format and generate_at apart).
C3_HitSkipsGenerator ==
    /\ (Served /\ trace.get = "hit") =>
            /\ ~trace.generated
            /\ trace.returned = JSON_parse(store[trace.resourceId])
    /\ (env.R2_BUCKET /\ ~faulted) =>
            /\ \A rid \in DOMAIN genOk : genOk[rid] <= 1
            /\ \A rid \in DOMAIN served : Cardinality(served[rid]) <= 1

\* A dispatch by URL answered from the entry an earlier dispatch wrote.
C3_Witness ==
    /\ Served /\ trace.route = "url" /\ trace.get = "hit"
    /\ ~faulted
    /\ count(genOk, trace.resourceId) = 1
    /\ served[trace.resourceId] = {payloadOf(response)}

HandleStep == request /= NoRequest /\ response = NoResponse /\ response' /= NoResponse

\* C4: a generation that does not yield success = true leaves the bucket as
\* it was and its result is what _withCache returns; and whenever the bucket
\* has no entry for the resourceId of a request, the generator is invoked.
C4_FailureNotCached ==
    [][HandleStep =>
        /\ (trace'.generated /\ ~truthy(Get(trace'.fresh, "success"))) =>
                /\ store' = store
                /\ trace'.returned = trace'.fresh
                /\ response'.body.json.success = JS_FALSE
        /\ (trace'.resourceId /= << >> /\ trace'.resourceId \notin DOMAIN store) =>
                trace'.generated]_vars

\* A failed generation with a bucket bound, and no entry for the resource.
C4_Witness ==
    /\ Served /\ env.R2_BUCKET
    /\ trace.generated /\ ~truthy(Get(trace.fresh, "success"))
    /\ trace.resourceId \notin DOMAIN store

\* C5: every text held in the bucket is a record with success = true and no
\* format property.
C5_StoredWithoutFormat ==
    \A rid \in DOMAIN store :
        /\ Get(JSON_parse(store[rid]), "success") = JS_TRUE
        /\ "format" \notin DOMAIN JSON_parse(store[rid])

\* The generator put format on its record, the record was stored, and the
\* response carries the format the dispatcher attached.
C5_Witness ==
    /\ Served /\ trace.generated /\ trace.put = "ok"
    /\ "format" \in DOMAIN trace.fresh
    /\ trace.resourceId \in DOMAIN store
    /\ truthy(response.body.json.format)

\* C6: when the read of the bucket fails (get throws, or the text of an entry
\* does not parse) the generator is invoked, and when the write fails the
\* error is swallowed: _withCache does not throw and returns the record the
\* generator produced, which the response then carries.
C6_BucketFaultsSwallowed ==
    (Served /\ (trace.get \in {"throws", "corrupt"} \/ trace.put = "throws")) =>
        /\ ~trace.threw
        /\ trace.generated
        /\ trace.returned = trace.fresh
        /\ response =
             makeJsonResponse(attachFormat(trace.fresh, formatterOf(trace.generator)), now, 0)

\* The read of an existing entry failed and the write of the fresh record
\* failed too.
C6_Witness ==
    /\ Served /\ trace.get = "corrupt" /\ trace.put = "throws"
    /\ response.body.json.success = JS_TRUE

-----------------------------------------------------------------------------
(* Properties of the query routing                                         *)

\* C10: the first rule that matches decides the route: url; else source and
\* query; else query; else tmdb_id (as source tmdb) or source and sid; else
\* the error payload naming the expected parameters.
C10_RoutingPrecedence ==
    Served =>
        LET p == request.params
            url == truthy(p.url)
            source == truthy(p.source)
            query == truthy(p.query)
            tmdb_id == truthy(p.tmdb_id)
            sid == truthy(p.sid)
            body == response.body.json
        IN  /\ url => trace.route = "url"
            /\ (~url /\ source /\ query) =>
                    /\ trace.route = "search"
                    /\ toLowerCase(p.source) \in {<<"imdb">>, <<"tmdb">>} =>
                           \/ body.success = JS_FALSE
                           \/ body.site = IF toLowerCase(p.source) = <<"imdb">>
                                          THEN <<"search-imdb">> ELSE <<"search-tmdb">>
            /\ (~url /\ ~source /\ query) =>
                    /\ trace.route = "auto"
                    /\ body.success = JS_TRUE =>
                           body.site \in {<<"search-imdb">>, <<"search-tmdb">>}
            /\ (~url /\ ~query /\ tmdb_id) =>
                    /\ trace.route = "direct"
                    /\ trace.generator = "gen_tmdb"
                    /\ trace.genSid = p.tmdb_id
                    /\ trace.get = "hit" \/ trace.generated
            /\ (~url /\ ~query /\ ~tmdb_id /\ source /\ sid) =>
                    /\ trace.route = "direct"
                    /\ toLowerCase(p.source) \in DOMAIN PROVIDER_CONFIG =>
                           /\ trace.generator = PROVIDER_CONFIG[toLowerCase(p.source)].generator
                           /\ trace.get = "hit" \/ trace.generated
            /\ (~url /\ ~query /\ ~tmdb_id /\ ~(source /\ sid)) =>
                    /\ trace.route = "invalid"
                    /\ ~trace.generated
                    /\ body.error = <<"Invalid parameters. Please provide 'url', 'query', or 'source' and 'sid'.">>
            /\ trace.route \in {"search", "auto", "invalid"} =>
                    (~trace.generated /\ trace.get = "none" /\ store = << >>)

\* A request carrying every parameter went to the URL dispatcher; the rules
\* for query, tmdb_id, source and sid were all passed over.
C10_Witness ==
    /\ Served /\ trace.route = "url" /\ trace.generated
    /\ truthy(request.params.source) /\ truthy(request.params.query)
    /\ truthy(request.params.tmdb_id) /\ truthy(request.params.sid)

-----------------------------------------------------------------------------
(* Properties of the HTTP entry                                            *)

HttpServed == Served /\ request.kind = "http" /\ request.method /= "OPTIONS"

\* An API key is configured and the request is not an internal one.
KeyDemanded == truthy(env.API_KEY) /\ request.headers.x_internal_request /= <<"true">>

RootGet == request.method = "GET" /\ pathnameOf(request.path) = <<"/">>

\* The identity's window is full when the request arrives.
AtLimit == InWindow(accepted[clientIPOf(request.headers)[1]], now) >= MAX_REQUESTS

\* C7: the checks run in the order key, malicious input, rate limit, and the
\* first that fails answers: a missing key (other than on GET /) or a wrong
\* key gives 401 and nothing else is checked; a request that passes the key
\* check and is malicious gives 403 and the limiter is not consulted; only a
\* request that passes both is counted by the limiter, and gets 429 when
\* limited and is valid otherwise.
C7_ChecksInOrder ==
    HttpServed =>
        /\ (KeyDemanded /\ ~truthy(request.query.key) /\ ~RootGet) =>
                /\ response.status = 401
                /\ trace.checks = <<"key">> /\ lastCall = NoCall
        /\ (KeyDemanded /\ truthy(request.query.key) /\ request.query.key /= env.API_KEY) =>
                /\ response.status = 401
                /\ trace.checks = <<"key">> /\ lastCall = NoCall
        /\ ((~KeyDemanded \/ request.query.key = env.API_KEY) /\ isMaliciousRequest(request)) =>
                /\ response.status = 403
                /\ trace.checks = <<"key", "malicious">> /\ lastCall = NoCall
        /\ ((~KeyDemanded \/ request.query.key = env.API_KEY) /\ ~isMaliciousRequest(request)) =>
                /\ trace.checks = <<"key", "malicious", "rate">>
                /\ lastCall.ip = clientIPOf(request.headers)[1]
                /\ lastCall.limited <=> response.status = 429
                /\ lastCall.limited <=> trace.route = "invalid"

\* A request with a wrong key and a traversal in its query, from an identity
\* whose window is full, was answered 401.
C7_Witness ==
    /\ HttpServed /\ KeyDemanded
    /\ request.query.key = <<"guess">>
    /\ isMaliciousRequest(request)
    /\ AtLimit
    /\ response.status = 401

\* The request's path has a '..' segment before another segment.
TraversalInPath == \E i \in 1..(Len(request.path) - 1) : request.path[i] = ".."

\* C8: a request whose path contains a traversal sequence and that the key
\* check does not reject is answered 403 and the query handler does not run.
C8_TraversalPathRejected ==
    (HttpServed /\ TraversalInPath /\ response.status /= 401) =>
        /\ response.status = 403
        /\ ~trace.dispatched

\* C9: GET / and GET /api answer the HTML page, with or without a configured
\* API key, when the request carries no key or the right one (and is not
\* refused as malicious or rate limited).
C9_DocumentationAlwaysPublic ==
    (/\ HttpServed /\ request.method = "GET"
     /\ pathnameOf(request.path) \in {<<"/">>, <<"/", "api">>}
     /\ request.query.key \in {JS_NULL, env.API_KEY}
     /\ response.status \notin {403, 429}) =>
        response.kind = "html"

-----------------------------------------------------------------------------
(* Properties of the error envelopes                                       *)

\* C11: an exception thrown while a query request is routed is answered with
\* a JSON error response of status 500 with the generic message.
C11_ExceptionAnswered500 ==
    (Served /\ request.kind = "query" /\ trace.threw) =>
        /\ response.kind = "json"
        /\ response.status = 500
        /\ response.body.json.error =
               <<"Internal Server Error. Please contact the administrator.">>

\* C12: a validated request that is not OPTIONS and is not GET or POST on /
\* or /api is answered with a JSON error envelope of status 404.
C12_NotFoundAnswered404 ==
    (/\ HttpServed /\ trace.rate = "admitted"
     /\ ~(/\ request.method \in {"GET", "POST"}
          /\ pathnameOf(request.path) \in {<<"/">>, <<"/", "api">>})) =>
        /\ response.kind = "json"
        /\ response.body.json.success = JS_FALSE
        /\ response.status = 404

-----------------------------------------------------------------------------
(* Properties of the URL dispatcher                                        *)

\* The positions in URL_PROVIDERS of the entries a domain of which occurs in
\* the URL.
Candidates(u) ==
    {i \in 1..Len(URL_PROVIDERS) : \E domain \in URL_PROVIDERS[i].domains : includes(u, domain)}

UrlServed == Served /\ request.kind = "query" /\ trace.route = "url"

CacheUntouched == ~trace.generated /\ trace.get = "none" /\ trace.put = "none" /\ store = << >>

\* C13: the URL dispatcher takes the first entry of URL_PROVIDERS, in
\* declaration order, a domain of which occurs in the URL; with no such entry
\* it answers "Unsupported URL" and touches neither cache nor generator; when
\* the regex of the entry taken does not match it answers "Invalid <name>
\* URL" and tries no later entry. The douban, tmdb and example.com URLs go
\* to douban with 1292052, to tmdb with movie/550, and to Unsupported URL.
C13_FirstProviderInOrder ==
    UrlServed =>
        LET u == request.params.url
            body == response.body.json
        IN  /\ Candidates(u) = {} =>
                    /\ body.success = JS_FALSE /\ body.error = <<"Unsupported URL">>
                    /\ CacheUntouched
            /\ Candidates(u) /= {} =>
                    LET first == CHOOSE i \in Candidates(u) : \A j \in Candidates(u) : i <= j
                        provider == URL_PROVIDERS[first]
                    IN  IF \E k \in 1..Len(u) : matchesAt(u, provider.regex, k)
                        THEN /\ trace.generator = provider.generator
                             /\ SubSeq(trace.resourceId, 1, 2) = provider.name \o <<"_">>
                        ELSE /\ body.success = JS_FALSE
                             /\ body.error = <<"Invalid ">> \o provider.name \o <<" URL">>
                             /\ CacheUntouched
            /\ u = U_douban =>
                    trace.generator = "gen_douban" /\ trace.genSid = <<"1292052">>
            /\ u = U_tmdb =>
                    trace.generator = "gen_tmdb" /\ trace.genSid = <<"movie", "/", "550">>
            /\ u = U_unknown => body.error = <<"Unsupported URL">>
            /\ u = U_both => trace.generator = "gen_douban"
            /\ u = U_shadowed => body.error = <<"Invalid ", "imdb", " URL">>

\* A URL that only bangumi's regex matches was refused in the name of imdb,
\* whose domain it carries.
C13_Witness ==
    /\ UrlServed
    /\ request.params.url = U_shadowed
    /\ response.body.json.error = <<"Invalid ", "imdb", " URL">>

\* The capture groups the regex can yield.
MatchesOf(regex) ==
    {m \in [1..Len(regex.groups) -> UNION {regex.pattern[k] : k \in 1..Len(regex.pattern)}] :
        \A k \in 1..Len(regex.groups) : m[k] \in regex.pattern[regex.groups[k]]}

\* The (provider name, identifier) pairs the URL dispatcher accepts.
AcceptedPairs ==
    UNION {{<<URL_PROVIDERS[i].name, formatId(URL_PROVIDERS[i], m)>> :
                m \in MatchesOf(URL_PROVIDERS[i].regex)} : i \in 1..Len(URL_PROVIDERS)}

LookupServed ==
    /\ Served /\ request.kind = "query" /\ trace.route \in {"url", "direct"}
    /\ trace.resourceId /= << >> /\ ~trace.threw

\* C15: a record with success = true that a lookup returns carries the format
\* the provider's formatter computes from it in this request, on a cache hit
\* as on a fresh generation; a record without success = true gets none.
C15_FormatAttachedOnSuccess ==
    LookupServed =>
        IF Get(trace.returned, "success") = JS_TRUE
        THEN /\ response.body.json.success = JS_TRUE
             /\ response.body.json.format =
                    <<formatterOf(trace.generator)>> \o trace.returned.title
             /\ trace.get = "hit" => "format" \notin DOMAIN trace.returned
        ELSE /\ "format" \notin DOMAIN trace.returned
             /\ response.body.json.format = DEFAULT_BODY_TEMPLATE.format

\* A cache hit: the stored record has no format and the response has one.
C15_Witness ==
    /\ LookupServed /\ trace.get = "hit"
    /\ "format" \notin DOMAIN trace.returned
    /\ response.body.json.format = <<"generateTmdbFormat", "v1">>

-----------------------------------------------------------------------------
(* Properties of the search handlers                                       *)

\* The CJK ranges: U+4E00-9FFF, U+3400-4DBF, U+20000-2CEAF, U+F900-FAFF.
IsCJK(c) ==
    \/ codePoint(c) \in 19968..40959
    \/ codePoint(c) \in 13312..19903
    \/ codePoint(c) \in 131072..183983
    \/ codePoint(c) \in 63744..64255

IsLatinLetter(c) == codePoint(c) \in 65..90 \/ codePoint(c) \in 97..122

\* More CJK characters than Latin letters; with fewer than two of both
\* together, at least one CJK character.
MostlyCJK(q) ==
    LET cjk == Cardinality({i \in 1..Len(q) : IsCJK(q[i])})
        latin == Cardinality({i \in 1..Len(q) : IsLatinLetter(q[i])})
    IN  IF cjk + latin < 2 THEN cjk >= 1 ELSE cjk > latin

\* A search that called a backend.
SearchServed ==
    /\ Served /\ request.kind = "query"
    /\ trace.generator \in {"search_imdb", "search_tmdb"}

\* C16: the auto-routed search calls TMDB exactly when the query has more CJK
\* characters than Latin letters (or, with fewer than two of both, at least
\* one CJK character), digits, punctuation and spaces counting for neither,
\* and IMDb otherwise.
C16_AutoRouteByScript ==
    (SearchServed /\ trace.route = "auto") =>
        (trace.generator = "search_tmdb" <=> MostlyCJK(request.params.query))

\* C17: search_imdb and search_tmdb do not throw, whatever their fetches do:
\* they return success = true with a non-empty data list, or success = false
\* with a non-empty error string and an empty data list.
C17_SearchNeverRejects ==
    SearchServed =>
        /\ ~trace.threw
        /\ IF Get(trace.returned, "success") = JS_TRUE
           THEN truthy(trace.returned.data) /\ Len(trace.returned.data) > 0
           ELSE /\ Get(trace.returned, "success") = JS_FALSE
                /\ truthy(Get(trace.returned, "error"))
                /\ Get(trace.returned, "data") = << >>
        /\ response.body.json.success = Get(trace.returned, "success")

\* The suggestion API gave nothing and the fetch of the result page was
\* aborted: search_imdb returned the timeout failure.
C17_Witness ==
    /\ SearchServed /\ trace.generator = "search_imdb"
    /\ trace.returned.success = JS_FALSE
    /\ trace.returned.error = <<"IMDb", " API request timeout">>
    /\ response.body.json.error = <<"IMDb", " API request timeout">>

-----------------------------------------------------------------------------
(* Properties of parameter extraction                                      *)

\* The request is a POST whose content type names JSON and whose body is the
\* text of a JSON object.
JsonBodyRead ==
    /\ request.method = "POST"
    /\ request.headers.content_type \in {<<"application/json">>}
    /\ request.body.kind = "json"

\* The body has a value for the field f.
Supplies(f) == f \in DOMAIN request.body.json /\ request.body.json[f] /= << >>

\* A validated POST on / or /api was served.
PostServed ==
    /\ HttpServed /\ trace.rate = "admitted"
    /\ request.method = "POST"
    /\ pathnameOf(request.path) \in {<<"/">>, <<"/", "api">>}

\* C18: of a POST with a JSON body each of source, query, url, tmdb_id and
\* sid is the body's value when the body supplies one and else the query
\* string's, field by field; when the body is absent, blank or not a JSON
\* object, or the content type is not JSON, all five are the query string's;
\* in either case the query handler is called with them and answers.
C18_BodyOverridesQueryPerField ==
    PostServed =>
        /\ trace.dispatched
        /\ \A f \in ParamNames :
              trace.params[f] = IF JsonBodyRead /\ Supplies(f) THEN request.body.json[f]
                                ELSE request.query[f]
        /\ response.kind = "json"

\* A body that supplies source and sid over a query string that has both: the
\* lookup is that of the body.
C18_Witness ==
    /\ PostServed /\ JsonBodyRead
    /\ request.query.source = <<"douban">> /\ request.query.sid = <<"1292052">>
    /\ Supplies("source") /\ Supplies("sid")
    /\ trace.params.source = <<"tmdb">>
    /\ trace.params.sid = <<"movie", "/", "550">>
    /\ trace.inner.resourceId = <<"tmdb", "_", "movie", "_", "550">>

\* Fields from both: the body has only sid, the source is the query string's.
C18_WitnessMixed ==
    /\ PostServed /\ JsonBodyRead
    /\ Supplies("sid") /\ ~Supplies("source")
    /\ trace.params.source = <<"douban">> /\ trace.params.sid = <<"550">>

\* A body that is not JSON: the query string alone is used and answered.
C18_WitnessUnparseable ==
    /\ PostServed
    /\ request.body.kind = "invalid"
    /\ request.headers.content_type = <<"application/json">>
    /\ trace.params.source = <<"douban">> /\ trace.params.sid = <<"1292052">>
    /\ response.body.json.success = JS_TRUE

-----------------------------------------------------------------------------
(* The frame of one isRateLimited call                                     *)

\* requestCounts.get(ip), an identity without an entry having no timestamps.
storedOf(counts, ip) == IF ip \in DOMAIN counts THEN counts[ip] ELSE << >>

\* The timestamps of a list that the call made now still counts.
Counted(list) == validRequestsOf(list, now - TIME_WINDOW)

\* This step is a call of isRateLimited by ip: the clock stands still and the
\* call is recorded as the last one.
CallBy(ip) == now' = now /\ lastCall'.ip = ip /\ lastCall'.at = now

\* The call that returned false stored the counted timestamps followed by
\* now, and no other identity's accepted or counted timestamps changed.
AcceptedCallFrame(ip) ==
    /\ storedOf(requestCounts', ip) = Append(Counted(storedOf(requestCounts, ip)), now)
    /\ accepted'[ip] = Append(accepted[ip], now)
    /\ \A other \in Identities \ {ip} :
          /\ accepted'[other] = accepted[other]
          /\ Counted(storedOf(requestCounts', other)) = Counted(storedOf(requestCounts, other))

\* C20: a call that returns true leaves the identity's stored list as it was
\* and records no accepted timestamp for anyone; a call that returns false
\* appends exactly one timestamp, now, to the identity's list and changes no
\* other identity's accepted timestamps.
C20_LimitedCallLeavesStateUnchanged ==
    [][\A ip \in Identities :
          CallBy(ip) =>
              IF lastCall'.limited
              THEN /\ storedOf(requestCounts', ip) = storedOf(requestCounts, ip)
                   /\ accepted' = accepted
              ELSE AcceptedCallFrame(ip)]_vars

\* A call has just returned true at an instant at which the sweep ran: the
\* identity keeps its MAX_REQUESTS stored timestamps, all of an earlier
\* instant, while the sweep deleted the other identity's expired entry.
C20_Witness ==
    /\ lastCall.limited /\ lastCall.at = now /\ lastCall.ip = "1.1.1.1"
    /\ lastCleanup = now /\ now > 0
    /\ storedOf(requestCounts, "1.1.1.1") = accepted["1.1.1.1"]
    /\ Len(accepted["1.1.1.1"]) = MAX_REQUESTS
    /\ accepted["1.1.1.1"][MAX_REQUESTS] < now
    /\ Len(accepted["unknown"]) = 1
    /\ "unknown" \notin DOMAIN requestCounts

-----------------------------------------------------------------------------
(* Properties of the outbound fetches                                      *)

\* Every fetch that is still awaited has an abort timer set.
AwaitedFetchesTimed ==
    \A n \in DOMAIN fetches :
        (fetches[n] = Pending /\ pc \notin {"respond", "done"}) =>
            (signalOf(n) \in DOMAIN timers /\ timers[signalOf(n)] = "armed")

\* No timer is left set once the handler has what it awaited.
TimersCleared ==
    pc \in {"respond", "done"} => \A t \in DOMAIN timers : timers[t] \in {"cleared", "fired"}

\* C19: every outbound fetch of a request is bounded by an abort timer, so
\* every request is eventually answered even if an upstream never answers,
\* and once the awaited fetches have settled their timer is no longer set.
C19_EveryRequestAnswered ==
    /\ []TimersCleared
    /\ (request.kind = "query") ~> (response /= NoResponse)

\* The requests whose fetches are given a signal are always answered.
TimedRequestsAnswered ==
    (pc \in {"tmdb", "content", "respond"}) ~> (response /= NoResponse)

-----------------------------------------------------------------------------
(* The sweep against a limiter that never sweeps                           *)

\* C21: every call of isRateLimited returns what the limiter that never
\* sweeps returns for the same calls; and after a call that swept, every
\* identity other than the caller that is still in the map has a timestamp
\* newer than windowStart.
C21_SweepIsAnOptimisation ==
    [][\A ip \in Identities :
          CallBy(ip) =>
              /\ lastCall'.limited
                    = isRateLimited_NeverSweeps(unswept, lastCleanup, ip, now).limited
              /\ sweepDue(now, lastCleanup) =>
                    \A other \in DOMAIN requestCounts' \ {ip} :
                        Len(Counted(requestCounts'[other])) > 0]_vars

\* The sweep has deleted an identity that the limiter that never sweeps
\* still holds, and the call that swept was rejected by both.
C21_Witness ==
    /\ lastCall.limited /\ lastCall.at = now /\ lastCleanup = now
    /\ "unknown" \in DOMAIN unswept \ DOMAIN requestCounts
    /\ Len(Counted(unswept["1.1.1.1"])) = MAX_REQUESTS
    /\ unswept["1.1.1.1"] = requestCounts["1.1.1.1"]

-----------------------------------------------------------------------------
(* Properties of requests served at once                                   *)

\* C22: with requests interleaved at their awaits, no window holds more than
\* MAX_REQUESTS admitted calls of an identity, so two requests are never
\* admitted on one remaining slot; every admitted call is in the map, and
\* the sweep time a call set is the one the next call finds.
C22_CheckAndRecordAtomic ==
    /\ \A ip \in Identities :
          /\ \A t \in WindowEnds : InWindow(accepted[ip], t) <= MAX_REQUESTS
          /\ Counted(storedOf(requestCounts, ip)) = Counted(accepted[ip])
    /\ lastCall /= NoCall =>
          (lastCleanup <= lastCall.at /\ lastCall.at - lastCleanup <= CLEANUP_INTERVAL)

\* One slot was left: of two requests of the identity one was admitted and
\* is suspended in its generator, the other was rejected, while a third
\* request is suspended before its bucket write.
C22_Witness ==
    /\ inflight[1].ip = inflight[2].ip
    /\ {inflight[1].pc, inflight[2].pc} = {"generate", "limited"}
    /\ inflight[3].pc = "put"
    /\ Len(accepted[inflight[1].ip]) = MAX_REQUESTS
    /\ InWindow(accepted[inflight[1].ip], now) = MAX_REQUESTS

\* The last completed write of a key, when there is one.
lastPutOf(key) ==
    LET ks == {k \in 1..Len(puts) : puts[k].key = key}
    IN  puts[CHOOSE k \in ks : \A j \in ks : j <= k]

\* Request i ran the generator.
Generated(i) == inflight[i].fresh /= UndefinedObject

\* C23: a request that ran the generator is answered with the record of its
\* own generation, and the entry of a key in the store is the record of the
\* write that completed last.
C23_LastWriteWins ==
    /\ \A i \in RequestIds :
          (inflight[i].pc = "done" /\ Generated(i)) => inflight[i].returned = inflight[i].fresh
    /\ \A k \in 1..Len(puts) :
          store[puts[k].key]
              = JSON_stringify(lightweight(inflight[lastPutOf(puts[k].key).by].fresh))

\* Two requests for one resource both missed, both generated and both wrote:
\* two generations for the key, two different records answered, and the
\* store holds the one written last.
C23_Witness ==
    /\ inflight[1].pc = "done" /\ inflight[2].pc = "done"
    /\ inflight[1].url = inflight[2].url
    /\ Generated(1) /\ Generated(2)
    /\ inflight[1].returned /= inflight[2].returned
    /\ count(genOk, lookupOf(inflight[1].url).resourceId) = 2
    /\ Len(puts) = 2 /\ puts[1].by = 2 /\ puts[2].by = 1
    /\ store[puts[2].key] = JSON_stringify(lightweight(inflight[1].fresh))

-----------------------------------------------------------------------------
(* Properties of the IMDb search fallback                                  *)

\* The request is one that search_imdb serves, and the handler has begun.
ImdbSearch ==
    /\ pc \notin {"idle", "start"}
    /\ awaited(request.params, env).generator = "search_imdb"

\* The suggestion API has answered without a result: a response that is not
\* ok, a network error, a body that does not parse, or an empty list.
ApiWithoutResults ==
    /\ "api" \in DOMAIN fetches
    /\ fetches["api"] \notin {Pending, [fetch |-> "ok", body |-> "results"]}

\* C24: search_imdb fetches the suggestion API first; the fetch of the result
\* page is issued exactly when the API has answered without a result, so
\* never when it gave one; and when the result page has none either the
\* answer is success = false with the no-results error.
C24_ScrapeOnlyAfterEmptyApi ==
    ImdbSearch =>
        /\ "api" \in DOMAIN fetches
        /\ ("scrape" \in DOMAIN fetches) <=> ApiWithoutResults
        /\ (/\ pc = "done" /\ ApiWithoutResults
            /\ fetches["scrape"] = [fetch |-> "ok", body |-> "empty"]) =>
               /\ trace.returned = NoResultsFound
               /\ response.body.json.success = JS_FALSE
               /\ response.body.json.error = NoResultsFound.error

\* The API answered 503, the result page was fetched and had no result, and
\* the search was answered with the no-results error.
C24_Witness ==
    /\ ImdbSearch /\ pc = "done"
    /\ fetches["api"].fetch = "not-ok"
    /\ "scrape" \in DOMAIN fetches
    /\ fetches["scrape"] = [fetch |-> "ok", body |-> "empty"]
    /\ response.body.json.error = NoResultsFound.error

\* The API gave a result and the search was answered without the result page.
C24_WitnessApiOnly ==
    /\ ImdbSearch /\ pc = "done"
    /\ DOMAIN fetches = {"api"}
    /\ response.body.json.success = JS_TRUE

-----------------------------------------------------------------------------
(* Properties of the generators and of the Douban helpers                  *)

\* A Douban helper was called and has returned.
HelperReturned == request.kind = "helper" /\ response.kind = "returned"

\* The round gave the data the helper parses.
Succeeded(r) == r.name = "response" /\ r.status = 200 /\ r.body = "data"

\* The round ended in a 4xx response or in an exception that is no timeout.
Final(r) ==
    \/ r.name = "response" /\ r.status \in 400..499
    \/ r.name \notin {"response", "AbortError"}

\* C30: each of fetchCelebritiesInfo, fetchAwardsInfo and fetchImdbRating
\* returns after at most 3 rounds and never throws; it goes to a further round
\* only after a round that neither succeeded nor ended in a 4xx response or a
\* non-timeout exception; it returns the parsed data when its last round
\* succeeded, and otherwise its empty value ({}, [], null), having used all 3
\* rounds unless the last one was a 4xx response or a non-timeout exception.
C30_HelpersStopWithinThreeAttempts ==
    HelperReturned =>
        LET last == request.upstream[trace.tried]
            parsed == CASE request.name = "fetchCelebritiesInfo" -> Celebrities
                        [] request.name = "fetchAwardsInfo" -> Awards
                        [] request.name = "fetchImdbRating" -> ImdbRating
            empty == IF request.name = "fetchImdbRating" THEN JS_NULL ELSE << >>
        IN  /\ trace.tried \in 1..3
            /\ ~trace.threw
            /\ \A k \in 1..(trace.tried - 1) :
                  ~Succeeded(request.upstream[k]) /\ ~Final(request.upstream[k])
            /\ Succeeded(last) => response.value = parsed
            /\ ~Succeeded(last) =>
                  /\ response.value = empty
                  /\ trace.tried = 3 \/ Final(last)

\* fetchImdbRating met a 503, then a timeout, and returned the rating of its
\* third round.
C30_Witness ==
    /\ HelperReturned
    /\ request.name = "fetchImdbRating"
    /\ request.upstream = <<Responded(503, "none"), Thrown("AbortError"),
                            Responded(200, "data")>>
    /\ trace.tried = 3
    /\ response.value = ImdbRating

\* fetchAwardsInfo met a 404 in its first round and returned [] at once.
C30_WitnessClientError ==
    /\ HelperReturned
    /\ request.name = "fetchAwardsInfo"
    /\ request.upstream[1] = Responded(404, "none")
    /\ request.upstream[2] = Responded(200, "data")
    /\ trace.tried = 1
    /\ response.value = << >>

\* A generator was called and has returned.
GeneratorReturned == request.kind = "gen" /\ response.kind = "returned"

\* The generator's primary fetch was issued and gave the item: the call got
\* past its checks of the id and of the key and past the archive, and the
\* page (for Douban the mobile page after a 204, 403 or 521) came with the
\* content the generator reads.
PrimarySucceeded ==
    /\ request.sid /= << >>
    /\ CASE request.generator = "gen_douban" ->
               /\ env.ENABLED_CACHE = <<"false">> => request.up.archive = "miss"
               /\ \/ request.up.page = Responded(200, "page")
                  \/ /\ request.up.page.status \in {204, 403, 521}
                     /\ request.up.mobile = Responded(200, "page")
         [] request.generator = "gen_imdb" ->
               /\ env.ENABLED_CACHE /= <<"false">>
               /\ request.up.page = Responded(200, "page")
         [] request.generator = "gen_tmdb" ->
               /\ env.TMDB_API_KEY = TMDB_KEY
               /\ request.up.page = Responded(200, "json")
         [] request.generator = "gen_bangumi" ->
               request.up.page = Responded(200, "json")

\* C25: once the primary fetch of a generator has succeeded the generator
\* returns success = true, whatever its secondary fetches (Douban celebrities,
\* awards and IMDb rating, IMDb releaseinfo and parentalguide, Bangumi
\* characters, TMDB translations) come to; a failure record is returned only
\* when the primary fetch failed.
C25_SecondaryFailuresLeaveSuccess ==
    (GeneratorReturned /\ PrimarySucceeded) =>
        /\ Get(response.value, "success") = JS_TRUE
        /\ "error" \notin DOMAIN response.value

\* The same for the generators other than gen_tmdb.
SecondaryFailuresTolerated ==
    (GeneratorReturned /\ PrimarySucceeded /\ request.generator /= "gen_tmdb") =>
        /\ Get(response.value, "success") = JS_TRUE
        /\ "error" \notin DOMAIN response.value

\* The value is a media record: success = true, or a failure with site, sid
\* and an error that is not empty.
IsMediaRecord(v) ==
    /\ v /= UndefinedObject
    /\ \/ Get(v, "success") = JS_TRUE
       \/ /\ {"site", "sid", "error"} \subseteq DOMAIN v
          /\ v.error /= << >>

\* C26: gen_douban and gen_imdb always resolve to a media record, never to
\* undefined; with archival mode on (env.ENABLED_CACHE === "false") and no
\* entry in the archive they return what the live scrape gives.
C26_ArchiveMissFallsBackToScrape ==
    (GeneratorReturned /\ request.generator \in {"gen_douban", "gen_imdb"}) =>
        /\ IsMediaRecord(response.value)
        /\ (env.ENABLED_CACHE = <<"false">> /\ request.up.archive = "miss") =>
              response.value = scrape(request.generator, request.sid,
                                      [env EXCEPT !.ENABLED_CACHE = JS_UNDEFINED],
                                      request.up)

\* The same for gen_douban alone.
DoubanArchiveMissFallsBackToScrape ==
    (GeneratorReturned /\ request.generator = "gen_douban") =>
        /\ IsMediaRecord(response.value)
        /\ (env.ENABLED_CACHE = <<"false">> /\ request.up.archive = "miss") =>
              response.value = scrape(request.generator, request.sid,
                                      [env EXCEPT !.ENABLED_CACHE = JS_UNDEFINED],
                                      request.up)

-----------------------------------------------------------------------------
(* Properties of the IMDb scrape fallback                                  *)

\* _searchViaScraping was called on a result page and has returned.
ScrapeReturned == request.kind = "scrape" /\ response.kind = "returned"

SummaryKeys == {"year", "subtype", "title", "subtitle", "link", "id"}

\* C27: _searchViaScraping returns at most 10 summaries, one for each row it
\* extracted, each of the shape {year, subtype, title, subtitle, link, id};
\* the title, year and subtitle of a summary are the ones extracted from its
\* row, and its id is the tt identifier of the row.
C27_ScrapeSummariesKeepRowValues ==
    ScrapeReturned =>
        /\ Len(response.value) <= 10
        /\ Len(response.value) = Len(trace.results)
        /\ \A k \in 1..Len(response.value) :
              /\ DOMAIN response.value[k] = SummaryKeys
              /\ response.value[k].title = trace.results[k].title
              /\ response.value[k].year = trace.results[k].year
              /\ response.value[k].subtitle = trace.results[k].subtitle
              /\ response.value[k].id = idMatch(trace.results[k].link)

\* What does hold of the summaries: at most 10, one for each extracted row,
\* of the stated shape, with the link of the row and nothing else of it.
ScrapeSummariesKeepLinkOnly ==
    ScrapeReturned =>
        /\ Len(response.value) <= 10
        /\ Len(response.value) = Len(trace.results)
        /\ \A k \in 1..Len(response.value) :
              /\ DOMAIN response.value[k] = SummaryKeys
              /\ response.value[k].link = trace.results[k].link
              /\ \A f \in SummaryKeys \ {"link"} : response.value[k][f] = << >>

\* A page of 12 rows gave 9 summaries: the first row links to a name, and the
\* walk ended at the tenth row.
ScrapeCapReached ==
    /\ ScrapeReturned
    /\ Len(request.rows) = 12
    /\ request.rows[1] = NameRow
    /\ Len(response.value) = 9

-----------------------------------------------------------------------------
(* Properties of the requests that are answered before the rate check      *)

\* handleRequest answers the request in this step.
Answering == request.kind = "http" /\ response = NoResponse /\ response' /= NoResponse

\* The request has no key where one is required, and is a GET of /, for which
\* the documentation page is returned.
DocumentationCarveOut ==
    /\ truthy(env.API_KEY)
    /\ request.headers.x_internal_request /= <<"true">>
    /\ ~truthy(request.query.key)
    /\ request.method = "GET"
    /\ pathnameOf(request.path) = <<"/">>

\* C28: a request that is answered without being admitted to the rate check,
\* that is an OPTIONS request, a request answered 401, the documentation page
\* returned for a missing key, or a request answered 403, leaves the
\* limiter's map and lastCleanup as they were.
C28_UncheckedRequestsConsumeNoQuota ==
    [][(/\ Answering
        /\ \/ request.method = "OPTIONS"
           \/ response'.status \in {401, 403}
           \/ DocumentationCarveOut)
       => (requestCounts' = requestCounts /\ lastCleanup' = lastCleanup)]_vars

\* A request of 1.1.1.1 was answered 403 when a sweep was due and 1.1.1.1 had
\* calls in the map: no sweep was made and no call recorded.
C28_Witness ==
    /\ request.kind = "http"
    /\ response /= NoResponse
    /\ response.status = 403
    /\ clientIPOf(request.headers) = <<"1.1.1.1">>
    /\ now - lastCleanup > CLEANUP_INTERVAL
    /\ requestCounts = [ip \in {"1.1.1.1"} |-> stamps(MAX_REQUESTS - 1)]
    /\ trace.rate = "none"

\* The documentation page was returned for a missing key, the map untouched.
C28_WitnessCarveOut ==
    /\ request.kind = "http"
    /\ DocumentationCarveOut
    /\ response /= NoResponse
    /\ response.status = 200
    /\ now - lastCleanup > CLEANUP_INTERVAL
    /\ requestCounts = [ip \in {"1.1.1.1"} |-> stamps(MAX_REQUESTS - 1)]
    /\ trace.rate = "none"

\* A request that was admitted to the rate check at the same instant did
\* move lastCleanup and did record its call.
AdmittedRequestCounted ==
    /\ request.kind = "http"
    /\ response /= NoResponse
    /\ trace.rate = "admitted"
    /\ lastCleanup = now
    /\ now = CLEANUP_INTERVAL + 1
    /\ requestCounts = [ip \in {"1.1.1.1"} |-> Append(stamps(MAX_REQUESTS - 1), now)]

-----------------------------------------------------------------------------
(* Properties of the two dispatch paths                                    *)

\* A direct lookup was dispatched to a generator.
DirectLookupServed ==
    /\ request.kind = "query"
    /\ trace.route = "direct"
    /\ trace.generator \in {"gen_douban", "gen_imdb", "gen_tmdb", "gen_bangumi"}

\* The source and the sid a direct lookup is made with.
sourceGiven == IF truthy(request.params.tmdb_id) THEN <<"tmdb">> ELSE request.params.source
sidGiven == IF truthy(request.params.tmdb_id) THEN request.params.tmdb_id
            ELSE request.params.sid

\* The item an identifier names for a generator: gen_tmdb reads an id without
\* a media type as a movie (parseSid, part_005 lines 12-23).
itemOf(generator, sid) ==
    IF generator = "gen_tmdb" /\ ~includes(sid, "/") THEN <<"movie", "/">> \o sid ELSE sid

\* The direct lookup names the resource of the URL: the provider that the
\* source, in lower case, stands for is the provider of the URL, and the sid,
\* written with /, names the item of the URL.
SameResource(url_) ==
    /\ toLowerCase(sourceGiven) \in DOMAIN PROVIDER_CONFIG
    /\ PROVIDER_CONFIG[toLowerCase(sourceGiven)].generator = lookupOf(url_).generator
    /\ itemOf(lookupOf(url_).generator, replaceAll(sidGiven, "_", "/"))
          = lookupOf(url_).genSid

\* C29: a direct lookup (source and sid, or tmdb_id) of a resource that a URL
\* reaches too computes the resourceId that the URL path computes and passes
\* the same identifier to the same generator, whatever the letter case of
\* the source and whether the sid is written with / or with _.
C29_DispatchPathsAgreeOnCacheKey ==
    DirectLookupServed =>
        \A url_ \in LookupUrls :
            SameResource(url_) =>
                /\ trace.resourceId = lookupOf(url_).resourceId
                /\ trace.generator = lookupOf(url_).generator
                /\ trace.genSid = lookupOf(url_).genSid

\* What does hold: the two paths agree when the source is spelled as the URL
\* provider is named and the sid names the item in full.
DispatchPathsAgreeOnExactName ==
    DirectLookupServed =>
        \A url_ \in LookupUrls :
            (/\ SameResource(url_)
             /\ \E i \in 1..Len(URL_PROVIDERS) :
                   /\ URL_PROVIDERS[i].name = sourceGiven
                   /\ URL_PROVIDERS[i].generator = trace.generator
             /\ replaceAll(sidGiven, "_", "/") = lookupOf(url_).genSid) =>
                /\ trace.resourceId = lookupOf(url_).resourceId
                /\ trace.generator = lookupOf(url_).generator
                /\ trace.genSid = lookupOf(url_).genSid

\* The two paths did agree: source=tmdb&sid=movie_550 was served under the
\* key of the TMDb URL.
DispatchPathsAgreed ==
    /\ DirectLookupServed
    /\ request.params.source = <<"tmdb">>
    /\ request.params.sid = <<"movie", "_", "550">>
    /\ SameResource(U_tmdb)
    /\ trace.resourceId = lookupOf(U_tmdb).resourceId
    /\ trace.genSid = lookupOf(U_tmdb).genSid

====
